---- MODULE Spec2Model ----
(***************************************************************************)
(* Orchestration core of the marketing-campaign agents:                    *)
(*   agents/manager_agent.py   workflow graph, plan / evaluate / integrate *)
(*   agents/*_agent.py         the three specialists                       *)
(*   memory/context_manager.py the shared context store                    *)
(*                                                                         *)
(* JSON values are tagged records: [t |-> "dict", d |-> <record>],         *)
(* [t |-> "list", l |-> <sequence>], [t |-> "str", s |-> <string>],        *)
(* [t |-> "bool", b |-> <boolean>], [t |-> "num", n |-> <integer>] and     *)
(* [t |-> "null"] (Python None).  A dict's keys are the fields of d.       *)
(***************************************************************************)
EXTENDS Integers, Sequences, FiniteSets, TLC

(* ---------------------------- bounds ----------------------------------- *)
\* largest max_revisions an execute_campaign call is given (smallest is -1)
MaxMaxRevisions == 2
\* completions of one run that differ from the reference completion of
\* their call site (the reference run: every completion is the object the
\* prompt asks for, and the evaluation asks for a revision)
MaxDeviations == 1
\* largest revision_count of the states should_revise is applied to directly
MaxRevisionCount == 2
\* mutator calls a client of the store makes on its own
MaxOps == 3

(* ---------------------------- JSON values ------------------------------ *)
None == [t |-> "null"]
S(s) == [t |-> "str", s |-> s]
L(l) == [t |-> "list", l |-> l]
D(d) == [t |-> "dict", d |-> d]
B(b) == [t |-> "bool", b |-> b]
Num(n) == [t |-> "num", n |-> n]
EmptyDict == D(<<>>)

IsDict(v) == v.t = "dict"
IsList(v) == v.t = "list"
IsStr(v) == v.t = "str"

\* dict.get(key, default); the caller guards on IsDict (a non-dict raises)
Get(v, key, default) == IF key \in DOMAIN v.d THEN v.d[key] ELSE default

\* Python truthiness of a JSON value
Truthy(v) ==
    CASE v.t = "null" -> FALSE
      [] v.t = "bool" -> v.b
      [] v.t = "num" -> v.n # 0
      [] v.t = "str" -> v.s # ""
      [] v.t = "text" -> TRUE
      [] v.t = "list" -> Len(v.l) > 0
      [] v.t = "dict" -> DOMAIN v.d # {}

(* ---------------------------- completion texts ------------------------- *)
\* A completion text is [fence, body]: fence says whether the text is wrapped
\* in a ```json fence, a bare ``` fence or none; body is what the wrapper
\* holds: "err" (the text "Error: ..." _call_llm renders for a failed call),
\* "junk" (text that is not JSON) or "json" with the value it denotes.
\* A fence may also carry another language tag ("tagged": ```JSON, ```js),
\* and a JSON text may hold the characters ``` inside one of its strings
\* ("jsonticks", with the value the text denotes); what the split leaves of
\* either is a "fragment", a piece of text that is not JSON.
ErrBody == [k |-> "err"]
FragmentBody == [k |-> "fragment"]
TickedJsonBody(v) == [k |-> "jsonticks", v |-> v]
JunkBody == [k |-> "junk"]
JsonBody(v) == [k |-> "json", v |-> v]
Text(fence, body) == [fence |-> fence, body |-> body]

\* _call_llm: the completion, or "Error: ..." when the call raised
ErrorText == Text("none", ErrBody)

\* response.split("```json")[1].split("```")[0].strip() and the bare variant
StripFence(response) ==
    IF response.fence = "tagged" \/ response.body.k = "jsonticks"
    THEN Text("none", FragmentBody)
    ELSE IF response.fence \in {"json", "bare"}
    THEN Text("none", response.body)
    ELSE response

\* json.loads raises JSONDecodeError unless the text is JSON
Parses(text) == text.fence = "none" /\ text.body.k = "json"
Loads(text) == text.body.v

\* "Error:" in str(raw_response)
HasErrorMarker(v) ==
    /\ v.t = "text"
    /\ v.x.body.k = "err"
\* a completion text stored inside a JSON document (raw_response)
Raw(text) == [t |-> "text", x |-> text]


(* ---------------------------- context store ---------------------------- *)
\* datetime.now().isoformat(): the clock is not modelled, every reading of
\* it is the same token
Now == S("<now>")

\* d[k] = v on a Python dict: the key is added when it is absent
Put(d, k, v) == [f \in DOMAIN d \cup {k} |-> IF f = k THEN v ELSE d[f]]

\* ContextManager._init_context
InitContext ==
    [campaign_id |-> None,
     brief |-> None,
     manager_plan |-> None,
     copywriter_outputs |-> <<>>,
     data_analyst_outputs |-> <<>>,
     outreach_outputs |-> <<>>,
     revisions |-> <<>>,
     final_output |-> None,
     created_at |-> None,
     updated_at |-> None]

\* The context file: absent, a complete JSON document, empty (just opened
\* with mode 'w'), a prefix of a document, a document followed by the tail
\* of a longer one it was written over (size: the entries of the longer
\* one), or text that was never JSON.
Missing == [kind |-> "missing"]
Document(v) == [kind |-> "json", v |-> v]
EmptyFile == [kind |-> "empty"]
PartialFile == [kind |-> "partial"]
GarbledFile(size) == [kind |-> "garbled", size |-> size]
CorruptFile == [kind |-> "text"]

\* ContextManager.context is a dict (a record of its keys) unless the file
\* held JSON that is not an object, which is kept as the tagged value
IsDictContext(ctx) == "t" \notin DOMAIN ctx

\* ContextManager._load_context: json.load of an existing file, a fresh
\* structure when the file is absent or json.load raises JSONDecodeError
_load_context_always_fresh(file) == InitContext

_load_context(file) ==
    IF file.kind = "json" THEN file.v ELSE InitContext

\* ContextManager.save_context, in memory: updated_at is set
save_context(ctx) == Put(ctx, "updated_at", Now)

\* ContextManager.save_context, on the file: json.dump(self.context, f)
json_dump_without_final_output(ctx) == Document(Put(ctx, "final_output", None))

json_dump(ctx) == Document(ctx)

\* f"campaign_{datetime.now().strftime(...)}"
NewCampaignId == S("campaign_<now>")

\* Each mutator below is the context it leaves in memory; it raises, and
\* leaves the context as it was, on the contexts of mutator_raises.
set_brief_starts_afresh(ctx, brief) ==
    save_context(Put(Put(Put(InitContext, "brief", brief), "created_at", Now),
                     "campaign_id", NewCampaignId))

set_brief_keeps_campaign_id(ctx, brief) ==
    save_context(Put(Put(ctx, "brief", brief), "created_at", Now))

set_brief(ctx, brief) ==
    save_context(Put(Put(Put(ctx, "brief", brief), "created_at", Now),
                     "campaign_id", NewCampaignId))

set_manager_plan_merges(ctx, plan) ==
    save_context(Put(ctx, "manager_plan",
        IF ctx.manager_plan.t = "dict" /\ plan.t = "dict"
        THEN D([k \in DOMAIN ctx.manager_plan.d \cup DOMAIN plan.d |->
                  IF k \in DOMAIN plan.d THEN plan.d[k] ELSE ctx.manager_plan.d[k]])
        ELSE plan))

set_manager_plan(ctx, plan) == save_context(Put(ctx, "manager_plan", plan))

add_copywriter_output(ctx, output) ==
    save_context([ctx EXCEPT !.copywriter_outputs = Append(@, output)])

add_data_analyst_output(ctx, output) ==
    save_context([ctx EXCEPT !.data_analyst_outputs = Append(@, output)])

add_outreach_output(ctx, output) ==
    save_context([ctx EXCEPT !.outreach_outputs = Append(@, output)])

add_revision(ctx, agent, feedback, revised_output) ==
    save_context([ctx EXCEPT !.revisions =
        Append(@, [agent |-> agent, feedback |-> feedback,
                   revised_output |-> revised_output])])

set_final_output(ctx, output) == save_context(Put(ctx, "final_output", output))

clear_context_keeps_revisions(ctx) ==
    save_context(IF "revisions" \in DOMAIN ctx
                 THEN [InitContext EXCEPT !.revisions = ctx.revisions]
                 ELSE InitContext)

\* ContextManager.clear_context
clear_context(ctx) == save_context(InitContext)

\* the key a mutator appends to, "" for the mutators that assign
AppendsTo(op) ==
    CASE op = "add_copywriter_output" -> "copywriter_outputs"
      [] op = "add_data_analyst_output" -> "data_analyst_outputs"
      [] op = "add_outreach_output" -> "outreach_outputs"
      [] op = "add_revision" -> "revisions"
      [] OTHER -> ""

\* self.context[key] = ... raises TypeError on a context that is not a dict,
\* self.context[key].append raises KeyError when the key is absent;
\* clear_context replaces the context and cannot raise
mutator_raises(ctx, op) ==
    /\ op # "clear_context"
    /\ \/ ~IsDictContext(ctx)
       \/ AppendsTo(op) # "" /\ AppendsTo(op) \notin DOMAIN ctx

\* get_context_summary reads these keys with self.context[key]
SummaryKeys ==
    {"brief", "manager_plan", "copywriter_outputs", "data_analyst_outputs",
     "outreach_outputs"}

get_context_summary_raises(ctx) ==
    \/ ~IsDictContext(ctx)
    \/ ~(SummaryKeys \subseteq DOMAIN ctx)

get_context_summary_with_revisions(ctx) ==
    (IF Truthy(ctx.brief) THEN <<[line |-> "Brief", v |-> ctx.brief]>> ELSE <<>>)
    \o (IF Truthy(ctx.manager_plan)
        THEN <<[line |-> "Plan", v |-> ctx.manager_plan]>> ELSE <<>>)
    \o (IF Len(ctx.copywriter_outputs) > 0
        THEN <<[line |-> "Copywriter outputs", n |-> Len(ctx.copywriter_outputs)]>>
        ELSE <<>>)
    \o (IF Len(ctx.data_analyst_outputs) > 0
        THEN <<[line |-> "Data analyst outputs", n |-> Len(ctx.data_analyst_outputs)]>>
        ELSE <<>>)
    \o (IF Len(ctx.outreach_outputs) > 0
        THEN <<[line |-> "Outreach outputs", n |-> Len(ctx.outreach_outputs)]>>
        ELSE <<>>)
    \o (IF "revisions" \in DOMAIN ctx /\ Len(ctx.revisions) > 0
        THEN <<[line |-> "Revisions", n |-> Len(ctx.revisions)]>>
        ELSE <<>>)

\* ContextManager.get_context_summary: the lines of the digest, in order
get_context_summary(ctx) ==
    (IF Truthy(ctx.brief) THEN <<[line |-> "Brief", v |-> ctx.brief]>> ELSE <<>>)
    \o (IF Truthy(ctx.manager_plan)
        THEN <<[line |-> "Plan", v |-> ctx.manager_plan]>> ELSE <<>>)
    \o (IF Len(ctx.copywriter_outputs) > 0
        THEN <<[line |-> "Copywriter outputs", n |-> Len(ctx.copywriter_outputs)]>>
        ELSE <<>>)
    \o (IF Len(ctx.data_analyst_outputs) > 0
        THEN <<[line |-> "Data analyst outputs", n |-> Len(ctx.data_analyst_outputs)]>>
        ELSE <<>>)
    \o (IF Len(ctx.outreach_outputs) > 0
        THEN <<[line |-> "Outreach outputs", n |-> Len(ctx.outreach_outputs)]>>
        ELSE <<>>)

(* ---------------------------- plan generator --------------------------- *)
FallbackPlan(response) ==
    D([strategy |-> S("Execute a multi-channel marketing campaign"),
       copywriter_tasks |->
          L(<<S("Create brand slogan and tagline"),
              S("Generate social media captions for Instagram, Facebook, Twitter, LinkedIn")>>),
       data_analyst_tasks |->
          L(<<S("Identify target audience segments"),
              S("Recommend best marketing channels")>>),
       outreach_tasks |->
          L(<<S("Draft influencer collaboration pitches"),
              S("Create outreach email templates")>>),
       deliverables |->
          L(<<S("Complete content library"),
              S("Audience targeting strategy"),
              S("Outreach templates")>>),
       raw_response |-> Raw(response)])

\* ManagerAgent.create_plan, given the completion _call_llm returned
create_plan(brief, response) ==
    LET stripped == StripFence(response)
    IN IF Parses(stripped) THEN Loads(stripped) ELSE FallbackPlan(stripped)

(* ---------------------------- specialists ------------------------------ *)
Agents == {"copywriter", "data_analyst", "outreach"}

OutputField ==
    [copywriter |-> "copywriter_output",
     data_analyst |-> "data_analyst_output",
     outreach |-> "outreach_output"]

TasksField ==
    [copywriter |-> "copywriter_tasks",
     data_analyst |-> "data_analyst_tasks",
     outreach |-> "outreach_tasks"]

DefaultTasks ==
    [copywriter |-> L(<<S("Create marketing copy")>>),
     data_analyst |-> L(<<S("Analyze audience and channels")>>),
     outreach |-> L(<<S("Create outreach content")>>)]

\* the store sequence each specialist appends to
StoreField ==
    [copywriter |-> "copywriter_outputs",
     data_analyst |-> "data_analyst_outputs",
     outreach |-> "outreach_outputs"]

\* the tag each specialist writes in its record, and the record's payload key
AgentTag == [copywriter |-> "copywriter", data_analyst |-> "data_analyst",
             outreach |-> "outreach"]

RECURSIVE JoinStrings(_)
JoinStrings(l) ==
    IF Len(l) = 0 THEN ""
    ELSE IF Len(l) = 1 THEN l[1].s
    ELSE l[1].s \o " | " \o JoinStrings(Tail(l))

\* " | ".join(tasks) raises TypeError unless tasks is an iterable of strings
JoinRaises(tasks) ==
    CASE IsList(tasks) -> \E i \in 1..Len(tasks.l) : ~IsStr(tasks.l[i])
      [] IsStr(tasks) -> FALSE
      [] IsDict(tasks) -> FALSE
      [] OTHER -> TRUE

\* " | ".join(tasks) for a list of strings (the only iterable the model draws)
Join(tasks) == S(JoinStrings(tasks.l))

\* copywriter_node / data_analyst_node / outreach_node up to execute_task:
\* plan.get raises on a plan that is not a dict, join on tasks that are not
\* strings
node_raises(st, a) ==
    \/ ~IsDict(st.manager_plan)
    \/ JoinRaises(Get(st.manager_plan, TasksField[a], DefaultTasks[a]))

task_description_ignores_plan(st, a) == Join(DefaultTasks[a])

\* " | ".join(plan.get("<agent>_tasks", [<default>]))
task_description(st, a) ==
    Join(Get(st.manager_plan, TasksField[a], DefaultTasks[a]))

\* OutreachAgent.execute_task: latest_copy.get("slogan", "") raises when the
\* latest copywriter content is not a dict
brand_message_raises(ctx) ==
    /\ Len(ctx.copywriter_outputs) > 0
    /\ ~IsDict(Get(D(ctx.copywriter_outputs[Len(ctx.copywriter_outputs)]),
                   "content", EmptyDict))

brand_message(ctx) ==
    IF Len(ctx.copywriter_outputs) > 0
    THEN Get(Get(D(ctx.copywriter_outputs[Len(ctx.copywriter_outputs)]),
                 "content", EmptyDict), "slogan", S(""))
    ELSE S("")

\* what execute_task reads from the store before the completion call
read_raises(ctx, a) == a = "outreach" /\ brand_message_raises(ctx)

build_prompt(ctx, a, task) ==
    [brief |-> ctx.brief,
     context |-> get_context_summary(ctx),
     task |-> task,
     brand_message |-> IF a = "outreach" THEN brand_message(ctx) ELSE S("")]

CopyFallback(response) ==
    D([slogan |-> S("Generated from response"),
       raw_response |-> Raw(response),
       instagram_captions |-> L(<<>>),
       facebook_ads |-> L(<<>>),
       twitter_post |-> S(""),
       linkedin_post |-> S("")])

AnalysisFallback(response) ==
    D([target_audiences |-> L(<<>>),
       recommended_channels |-> L(<<>>),
       timing_recommendations |-> S("Based on general best practices"),
       suggested_kpis |-> L(<<S("reach"), S("engagement"), S("conversions")>>),
       raw_response |-> Raw(response)])

OutreachFallback(response) ==
    D([cold_outreach_email |->
          D([subject |-> S(""), body |-> S(""), call_to_action |-> S("")]),
       influencer_pitch |->
          D([subject |-> S(""), body |-> S(""), value_proposition |-> S("")]),
       media_pitch |->
          D([subject |-> S(""), body |-> S(""), news_angle |-> S("")]),
       follow_up_template |-> D([subject |-> S(""), body |-> S("")]),
       raw_response |-> Raw(response)])

Fallback(a, response) ==
    CASE a = "copywriter" -> CopyFallback(response)
      [] a = "data_analyst" -> AnalysisFallback(response)
      [] a = "outreach" -> OutreachFallback(response)

\* the try/except of execute_task: strip the fence, json.loads, or fall back
parse_content(a, response) ==
    LET stripped == StripFence(response)
    IN IF Parses(stripped) THEN Loads(stripped) ELSE Fallback(a, stripped)

\* the record execute_task stores and returns
output_record(a, task, response) ==
    IF a = "data_analyst"
    THEN [task |-> task, analysis |-> parse_content(a, response), agent |-> AgentTag[a]]
    ELSE [task |-> task, content |-> parse_content(a, response), agent |-> AgentTag[a]]

add_output_clears_final_output(ctx, a, output) ==
    CASE a = "copywriter" ->
            add_copywriter_output(Put(ctx, "final_output", None), output)
      [] a = "data_analyst" ->
            add_data_analyst_output(Put(ctx, "final_output", None), output)
      [] a = "outreach" ->
            add_outreach_output(Put(ctx, "final_output", None), output)

add_output(ctx, a, output) ==
    CASE a = "copywriter" -> add_copywriter_output(ctx, output)
      [] a = "data_analyst" -> add_data_analyst_output(ctx, output)
      [] a = "outreach" -> add_outreach_output(ctx, output)


(* ---------------------------- evaluator -------------------------------- *)
FallbackEvaluation(response) ==
    D([overall_score |-> Num(7),
       strengths |-> L(<<S("Outputs generated")>>),
       improvements_needed |-> L(<<>>),
       revision_requests |-> L(<<>>),
       ready_for_final |-> B(TRUE),
       raw_response |-> Raw(response)])

\* ManagerAgent.evaluate_outputs, given the completion _call_llm returned
evaluate_outputs(st, response) ==
    LET stripped == StripFence(response)
    IN IF Parses(stripped) THEN Loads(stripped) ELSE FallbackEvaluation(stripped)

\* evaluation_node: the requests the loop over revision_requests records
\* before it returns or raises.  evaluation.get raises on a non-dict; the
\* loop runs when revision_requests is truthy and raises at the first element
\* that has no .get (or at once when the value is not iterable).
RECURSIVE DictPrefix(_)
DictPrefix(l) ==
    IF Len(l) = 0 \/ ~IsDict(Head(l)) THEN <<>>
    ELSE <<Head(l)>> \o DictPrefix(Tail(l))

recorded_requests(evaluation) ==
    IF ~IsDict(evaluation) THEN <<>>
    ELSE LET reqs == Get(evaluation, "revision_requests", L(<<>>))
         IN IF Truthy(reqs) /\ IsList(reqs) THEN DictPrefix(reqs.l) ELSE <<>>

evaluation_node_raises(evaluation) ==
    \/ ~IsDict(evaluation)
    \/ LET reqs == Get(evaluation, "revision_requests", L(<<>>))
       IN /\ Truthy(reqs)
          /\ \/ ~IsList(reqs)
             \/ Len(DictPrefix(reqs.l)) < Len(reqs.l)

RECURSIVE add_revisions(_, _)
add_revisions(ctx, reqs) ==
    IF Len(reqs) = 0 THEN ctx
    ELSE add_revisions(
            add_revision(ctx, Get(Head(reqs), "agent", S("unknown")),
                         Get(Head(reqs), "request", S("")), EmptyDict),
            Tail(reqs))

\* evaluation_node's return value merged into the transient state
evaluation_node_increment_only_on_requests(st, evaluation) ==
    [st EXCEPT !.evaluation = evaluation,
               !.revision_count =
                   IF Len(recorded_requests(evaluation)) > 0 THEN @ + 1 ELSE @]

evaluation_node(st, evaluation) ==
    [st EXCEPT !.evaluation = evaluation, !.revision_count = @ + 1]

(* ---------------------------- revision decision ------------------------ *)
\* len(x) raises TypeError on None, numbers and booleans
LenRaises(v) == v.t \in {"null", "num", "bool"}
PyLen(v) ==
    CASE v.t = "list" -> Len(v.l)
      [] v.t = "dict" -> Cardinality(DOMAIN v.d)
      [] v.t = "str" -> IF v.s = "" THEN 0 ELSE 1
      [] OTHER -> 1

\* state.get("evaluation", {}) / state.get("copywriter_output", {}): the
\* keys are always present in the transient state
RawResponseOf(copywriter_output) ==
    Get(Get(D(copywriter_output), "content", EmptyDict), "raw_response", S(""))

error_check_raises(st) ==
    /\ st.copywriter_output # None
    /\ ~IsDict(Get(D(st.copywriter_output), "content", EmptyDict))

error_detected(st) ==
    /\ st.copywriter_output # None
    /\ HasErrorMarker(RawResponseOf(st.copywriter_output))

requests_check_raises(st) ==
    \/ ~IsDict(st.evaluation)
    \/ LenRaises(Get(st.evaluation, "revision_requests", L(<<>>)))

ready(st) == Truthy(Get(st.evaluation, "ready_for_final", B(TRUE)))
has_requests(st) == PyLen(Get(st.evaluation, "revision_requests", L(<<>>))) > 0

should_revise_ceiling_off_by_one(st) ==
    IF st.revision_count > st.max_revisions THEN "finalize"
    ELSE IF error_check_raises(st) THEN "raise"
    ELSE IF error_detected(st) THEN "finalize"
    ELSE IF requests_check_raises(st) THEN "raise"
    ELSE IF has_requests(st) /\ st.revision_count <= st.max_revisions /\ ready(st)
         THEN "revise"
    ELSE "finalize"

should_revise_ignores_ready(st) ==
    IF st.revision_count >= st.max_revisions THEN "finalize"
    ELSE IF error_check_raises(st) THEN "raise"
    ELSE IF error_detected(st) THEN "finalize"
    ELSE IF requests_check_raises(st) THEN "raise"
    ELSE IF has_requests(st) /\ st.revision_count < st.max_revisions
         THEN "revise"
    ELSE "finalize"

should_revise_no_error_check(st) ==
    IF st.revision_count >= st.max_revisions THEN "finalize"
    ELSE IF requests_check_raises(st) THEN "raise"
    ELSE IF has_requests(st) /\ st.revision_count < st.max_revisions /\ ready(st)
         THEN "revise"
    ELSE "finalize"

\* should_revise: "revise", "finalize", or "raise" when it raises
should_revise(st) ==
    IF st.revision_count >= st.max_revisions THEN "finalize"
    ELSE IF error_check_raises(st) THEN "raise"
    ELSE IF error_detected(st) THEN "finalize"
    ELSE IF requests_check_raises(st) THEN "raise"
    ELSE IF has_requests(st) /\ st.revision_count < st.max_revisions /\ ready(st)
         THEN "revise"
    ELSE "finalize"


(* ---------------------------- integrator ------------------------------- *)
\* the payload of a specialist's record: output.get(key, {}) if output else {}
Payload(output, key) ==
    IF output = None THEN EmptyDict ELSE Get(D(output), key, EmptyDict)

\* iterating v and calling .get on each element raises unless v is a list
\* of dicts (or an empty string or dict)
EachGetRaises(v) ==
    CASE IsList(v) -> \E i \in 1..Len(v.l) : ~IsDict(v.l[i])
      [] IsStr(v) -> v.s # ""
      [] IsDict(v) -> DOMAIN v.d # {}
      [] OTHER -> TRUE

integrate_raises(st) ==
    LET copywriter_content == Payload(st.copywriter_output, "content")
        analyst_analysis == Payload(st.data_analyst_output, "analysis")
        outreach_content == Payload(st.outreach_output, "content")
    IN \/ ~IsDict(st.manager_plan)
       \/ ~IsDict(copywriter_content)
       \/ ~IsDict(analyst_analysis)
       \/ ~IsDict(outreach_content)
       \/ LET audiences == Get(analyst_analysis, "target_audiences", None)
          IN /\ Truthy(audiences)
             /\ \/ ~IsList(audiences)
                \/ ~IsDict(audiences.l[1])
       \/ EachGetRaises(Get(analyst_analysis, "recommended_channels", L(<<>>)))

\* ManagerAgent.integrate_outputs
integrate_outputs(st) ==
    LET plan == st.manager_plan
        copywriter_content == Payload(st.copywriter_output, "content")
        analyst_analysis == Payload(st.data_analyst_output, "analysis")
        outreach_content == Payload(st.outreach_output, "content")
        audiences == Get(analyst_analysis, "target_audiences", None)
        channels == Get(analyst_analysis, "recommended_channels", L(<<>>))
    IN D([campaign_brief |-> st.brief,
          strategy |-> Get(plan, "strategy", S("")),
          target_audience |->
             IF Truthy(audiences)
             THEN Get(audiences.l[1], "segment_name", S("General audience"))
             ELSE S("General audience"),
          core_message |-> Get(copywriter_content, "slogan", S("")),
          recommended_channels |->
             L([i \in 1..PyLen(channels) |-> Get(channels.l[i], "channel", S(""))]),
          content_examples |->
             D([slogan |-> Get(copywriter_content, "slogan", S("")),
                instagram_captions |->
                    Get(copywriter_content, "instagram_captions", L(<<>>)),
                facebook_ads |-> Get(copywriter_content, "facebook_ads", L(<<>>)),
                twitter_post |-> Get(copywriter_content, "twitter_post", S("")),
                linkedin_post |-> Get(copywriter_content, "linkedin_post", S(""))]),
          outreach_templates |->
             D([cold_email |-> Get(outreach_content, "cold_outreach_email", EmptyDict),
                influencer_pitch |-> Get(outreach_content, "influencer_pitch", EmptyDict),
                media_pitch |-> Get(outreach_content, "media_pitch", EmptyDict)]),
          kpis |-> Get(analyst_analysis, "suggested_kpis", L(<<>>)),
          timing_recommendations |->
             Get(analyst_analysis, "timing_recommendations", S(""))])

(* ---------------------------- workflow graph --------------------------- *)
\* workflow.set_entry_point("plan")
EntryPoint == "plan"

\* the edges copywriter/data_analyst/outreach -> evaluate: the three run in
\* the step after plan, and evaluate runs in the step after them, once all
\* the nodes of that step have returned
evaluate_triggered_by_any(status) == \E a \in Agents : status[a] = "done"

evaluate_triggered(status) == \A a \in Agents : status[a] = "done"

Route_revise_skips_plan(label) ==
    IF label = "revise" THEN "specialists" ELSE "integrate"

\* add_conditional_edges("evaluate", should_revise, {...})
Route(label) == IF label = "revise" THEN "plan" ELSE "integrate"

\* workflow.add_edge("integrate", END)
after_integrate_loops == "plan"

after_integrate == "END"


(* ---------------------------- completions ------------------------------ *)
\* The completion service returns any text.  The texts the model draws, per
\* call site: a reference object of the shape the prompt asks for, wrapped in
\* a ```json fence, and the deviations from it: another such object without
\* fence, a failed call, non-JSON text, JSON of another shape.
Brief == S("Promote X")

FencedJson(v) == Text("json", JsonBody(v))
Bare(v) == Text("none", JsonBody(v))

NonJsonTexts == {ErrorText, Text("none", JunkBody), Text("json", JunkBody)}

PlanA ==
    D([strategy |-> S("strategy A"),
       copywriter_tasks |-> L(<<S("slogan"), S("captions")>>),
       data_analyst_tasks |-> L(<<S("segments")>>),
       outreach_tasks |-> L(<<S("pitches")>>),
       deliverables |-> L(<<S("library")>>)])

PlanB ==
    D([strategy |-> S("strategy B"),
       copywriter_tasks |-> L(<<S("tagline")>>),
       data_analyst_tasks |-> L(<<S("channels"), S("kpis")>>),
       outreach_tasks |-> L(<<S("emails")>>),
       deliverables |-> L(<<S("templates")>>)])

PlanReference == {FencedJson(PlanA)}

PlanDeviations ==
    NonJsonTexts
    \cup {Bare(PlanB),
          Bare(L(<<>>)),
          Bare(D([strategy |-> S("strategy C")])),
          Bare(D([strategy |-> S("strategy D"), copywriter_tasks |-> None]))}

CopyContent ==
    D([slogan |-> S("Just X"),
       instagram_captions |-> L(<<D([tone |-> S("informative"), caption |-> S("c1")])>>),
       facebook_ads |-> L(<<D([type |-> S("short"), copy |-> S("f1")])>>),
       twitter_post |-> S("tw"),
       linkedin_post |-> S("li")])

Analysis ==
    D([target_audiences |->
          L(<<D([segment_name |-> S("Gen Z")]), D([segment_name |-> S("Parents")])>>),
       recommended_channels |->
          L(<<D([channel |-> S("Instagram")]), D([channel |-> S("Email")])>>),
       timing_recommendations |-> S("spring"),
       suggested_kpis |-> L(<<S("ctr")>>)])

OutreachContent ==
    D([cold_outreach_email |-> D([subject |-> S("s1"), body |-> S("b1"),
                                  call_to_action |-> S("a1")]),
       influencer_pitch |-> D([subject |-> S("s2"), body |-> S("b2"),
                               value_proposition |-> S("v2")]),
       media_pitch |-> D([subject |-> S("s3"), body |-> S("b3"),
                          news_angle |-> S("n3")]),
       follow_up_template |-> D([subject |-> S("s4"), body |-> S("b4")])])

ReferenceContent ==
    [copywriter |-> CopyContent, data_analyst |-> Analysis,
     outreach |-> OutreachContent]

SpecialistReference(a) ==
    {FencedJson(ReferenceContent[a])}

SpecialistDeviations(a) ==
    NonJsonTexts
    \cup {Bare(L(<<>>)), Bare(EmptyDict)}
    \cup (IF a = "data_analyst"
          THEN {Bare(D([target_audiences |-> L(<<S("Gen Z")>>)])),
                Bare(D([recommended_channels |-> None]))}
          ELSE {})

Request(agent) ==
    D([agent |-> S(agent), issue |-> S("issue"), request |-> S("redo " \o agent)])

RequestLists == {<<>>, <<Request("outreach"), Request("copywriter")>>}

Evaluation(rdy, reqs) ==
    D([overall_score |-> Num(8),
       strengths |-> L(<<S("clear")>>),
       improvements_needed |-> L(<<>>),
       revision_requests |-> L(reqs),
       ready_for_final |-> B(rdy)])

EvaluationRecords == {Evaluation(r, q) : r \in BOOLEAN, q \in RequestLists}

EvaluationA == Evaluation(TRUE, <<Request("outreach"), Request("copywriter")>>)

EvaluationReference == {FencedJson(EvaluationA)}

EvaluationDeviations ==
    NonJsonTexts
    \cup {Bare(e) : e \in EvaluationRecords \ {EvaluationA}}
    \cup {Bare(L(<<>>)),
          Bare(D([revision_requests |-> L(<<Request("data_analyst")>>)])),
          Bare(D([ready_for_final |-> B(TRUE)])),
          Bare(D([ready_for_final |-> B(TRUE), revision_requests |-> None])),
          Bare(D([ready_for_final |-> B(TRUE),
                  revision_requests |-> L(<<Request("copywriter"), S("shorter")>>)]))}

\* The store a finished earlier campaign left in the context file: brief,
\* plan, one record per specialist, one revision and the final report.
PreviousBrief == S("Promote W")

PreviousOutput(a) ==
    output_record(a, Join(Get(PlanB, TasksField[a], DefaultTasks[a])),
                  Bare(ReferenceContent[a]))

PreviousReport ==
    integrate_outputs([brief |-> PreviousBrief,
                       manager_plan |-> PlanB,
                       copywriter_output |-> PreviousOutput("copywriter"),
                       data_analyst_output |-> PreviousOutput("data_analyst"),
                       outreach_output |-> PreviousOutput("outreach")])

PreviousContext ==
    set_final_output(
        add_revision(
            add_outreach_output(
                add_data_analyst_output(
                    add_copywriter_output(
                        set_manager_plan(set_brief(InitContext, PreviousBrief), PlanB),
                        PreviousOutput("copywriter")),
                    PreviousOutput("data_analyst")),
                PreviousOutput("outreach")),
            S("outreach"), S("redo outreach"), EmptyDict),
        PreviousReport)

\* what the context file holds when a ContextManager is constructed before
\* a campaign
CampaignStartFiles == {Missing, json_dump(PreviousContext)}

(* ---------------------------- state ------------------------------------ *)
VARIABLES
    pc,            \* where execute_campaign is: "idle", a node of the graph
                   \* ("specialists" is the step of the three specialist
                   \* nodes), "END", "returned", or "raised" once a node
                   \* raised and workflow.invoke propagated the exception;
                   \* "decide"/"decided" when should_revise is applied on
                   \* its own
    state,         \* AgentState, the transient workflow state
    context,       \* ContextManager.context
    disk,          \* the document in the context file
    status,        \* per specialist node: "idle", "called", "done"
    prompt,        \* per specialist: what execute_task read before the
                   \* completion call (its locals, gone when it returns)
    branch,        \* the label should_revise returned last
    result,        \* what execute_campaign returned
    deviations,    \* completions so far that were not the reference one
    planRuns,      \* completed runs of plan_node
    evalRuns,      \* completed runs of evaluation_node
    reviseTaken,   \* times the "revise" edge was taken
    integrateRuns, \* completed runs of integration_node
    producedIn,    \* per specialist: the plan run its transient output follows
    context0,      \* what ContextManager.context held, updated_at aside,
                   \* when the call under study began (execute_campaign,
                   \* or the first construction of the store)
    saver,         \* per thread inside save_context: what it is writing
    lastOp,        \* the store operation a client of the store ran last
    ops,           \* store operations the client has run
    completion,    \* the completion text a call site is given, when a call
                   \* site is applied on its own
    callFailed,    \* per specialist: the completion call of its latest
                   \* invocation raised inside _call_llm
    api_key,       \* os.getenv("OPENAI_API_KEY") in the process environment
    messages,      \* AgentCommunicationBus.messages, the log
    pending_requests, \* AgentCommunicationBus.pending_requests, by message_id
    clock,         \* the reading datetime.now().timestamp() gives
    sys_stdout,    \* sys.stdout of the Streamlit process
    old_stdout,    \* the local old_stdout of app.execute_campaign
    campaign_running \* st.session_state.campaign_running

\* the variables of the message bus and of the Streamlit page
bus == <<messages, pending_requests, clock>>
ui == <<sys_stdout, old_stdout, campaign_running>>

\* AgentCommunicationBus.__init__: an empty log, nothing pending
BusConstructed ==
    /\ messages = <<>>
    /\ pending_requests = [id \in {} |-> None]
    /\ clock = 0

\* the page before the run button is pressed: initialize_session_state has
\* set campaign_running to False, sys.stdout is the process's own stream
\* and no call of app.execute_campaign has bound old_stdout
Unbound == "unbound"
UIIdle ==
    /\ sys_stdout = "console"
    /\ old_stdout = Unbound
    /\ campaign_running = FALSE

vars == <<pc, state, context, disk, status, prompt, branch, result, deviations,
          planRuns, evalRuns, reviseTaken, integrateRuns, producedIn,
          context0, saver, lastOp, ops, completion, callFailed,
          api_key, bus, ui>>

\* the variables of the store's clients outside the workflow
storeClient == <<saver, lastOp, ops>>

\* a context without its updated_at stamp
CampaignData(ctx) == [f \in DOMAIN ctx \ {"updated_at"} |-> ctx[f]]

\* no completion text at hand
NoCompletion == [fence |-> "none", body |-> [k |-> "absent"]]

\* no save in progress / no operation yet
NoSave == [open |-> FALSE, snapshot |-> None]
NoOp == [op |-> "none", arg |-> None, raised |-> FALSE, after |-> "none"]

counters == <<planRuns, evalRuns, reviseTaken, integrateRuns>>

NoPrompt == [brief |-> None, context |-> <<>>, task |-> S(""), brand_message |-> S("")]

\* execute_campaign's initial_state
initial_state(brief, max_revisions) ==
    [brief |-> brief,
     manager_plan |-> None,
     copywriter_output |-> None,
     data_analyst_output |-> None,
     outreach_output |-> None,
     evaluation |-> None,
     final_output |-> None,
     revision_count |-> 0,
     max_revisions |-> max_revisions]

Init ==
    /\ pc = "idle"
    /\ state = initial_state(None, 1)
    /\ disk \in CampaignStartFiles
    /\ context = _load_context(disk)
    /\ status = [a \in Agents |-> "idle"]
    /\ prompt = [a \in Agents |-> NoPrompt]
    /\ branch = "none"
    /\ result = None
    /\ deviations = 0
    /\ planRuns = 0
    /\ evalRuns = 0
    /\ reviseTaken = 0
    /\ integrateRuns = 0
    /\ producedIn = [a \in Agents |-> 0]
    /\ context0 = CampaignData(context)
    /\ saver = [a \in Agents |-> NoSave]
    /\ lastOp = NoOp
    /\ ops = 0
    /\ completion = NoCompletion
    /\ callFailed = [a \in Agents |-> FALSE]
    /\ api_key = S("sk-key")
    /\ BusConstructed
    /\ UIIdle

\* a completion arrives: the reference one or, within the budget, another
Completion(reference, others, response) ==
    \/ response \in reference /\ deviations' = deviations
    \/ /\ response \in others \ reference
       /\ deviations < MaxDeviations
       /\ deviations' = deviations + 1

\* app.py's "clear" control, before a campaign is run: clear_context on the
\* store of the context file
ClearContext ==
    /\ pc = "idle"
    /\ context' = clear_context(context)
    /\ disk' = json_dump(context')
    /\ UNCHANGED <<completion, callFailed, api_key, bus, ui, pc, state, status, prompt, branch, result, deviations,
                   counters, producedIn, context0, storeClient>>

\* ManagerAgent.execute_campaign up to workflow.invoke
ExecuteCampaign(max_revisions) ==
    /\ pc = "idle"
    /\ context0' = CampaignData(context)
    /\ context' = set_brief(context, Brief)
    /\ disk' = json_dump(context')
    /\ state' = initial_state(Brief, max_revisions)
    /\ pc' = EntryPoint
    /\ UNCHANGED <<completion, callFailed, api_key, bus, ui, status, prompt, branch, result, deviations, counters,
                   producedIn, storeClient>>

\* plan_node
PlanNode(response) ==
    /\ pc = "plan"
    /\ Completion(PlanReference, PlanDeviations, response)
    /\ LET plan == create_plan(state.brief, response)
       IN /\ context' = set_manager_plan(context, plan)
          /\ disk' = json_dump(context')
          /\ state' = [state EXCEPT !.manager_plan = plan]
    /\ status' = [a \in Agents |-> "idle"]
    /\ planRuns' = planRuns + 1
    /\ pc' = "specialists"
    /\ UNCHANGED <<completion, callFailed, api_key, bus, ui, prompt, branch, result, evalRuns, reviseTaken,
                   integrateRuns, producedIn, context0, storeClient>>

\* copywriter_node / data_analyst_node / outreach_node up to the completion
\* call inside execute_task
StartSpecialist(a) ==
    /\ pc = "specialists"
    /\ status[a] = "idle"
    /\ IF node_raises(state, a) \/ read_raises(context, a)
       THEN /\ pc' = "raised"
            /\ UNCHANGED <<status, prompt>>
       ELSE /\ prompt' = [prompt EXCEPT
                            ![a] = build_prompt(context, a, task_description(state, a))]
            /\ status' = [status EXCEPT ![a] = "called"]
            /\ pc' = pc
    /\ UNCHANGED <<completion, callFailed, api_key, bus, ui, state, context, disk, branch, result, deviations, counters,
                   producedIn, context0, storeClient>>

\* the rest of execute_task and the node's return
FinishSpecialist(a, response) ==
    /\ pc = "specialists"
    /\ status[a] = "called"
    /\ Completion(SpecialistReference(a), SpecialistDeviations(a), response)
    /\ LET output == output_record(a, prompt[a].task, response)
       IN /\ context' = add_output(context, a, output)
          /\ disk' = json_dump(context')
          /\ state' = [state EXCEPT ![OutputField[a]] = output]
    /\ status' = [status EXCEPT ![a] = "done"]
    /\ prompt' = [prompt EXCEPT ![a] = NoPrompt]
    /\ producedIn' = [producedIn EXCEPT ![a] = planRuns]
    /\ callFailed' = [callFailed EXCEPT ![a] = (response = ErrorText)]
    /\ UNCHANGED <<completion, api_key, bus, ui, pc, branch, result, counters, context0, storeClient>>

\* evaluation_node followed by the conditional edge should_revise
EvaluateNode(response) ==
    /\ pc = "specialists"
    /\ evaluate_triggered(status)
    /\ Completion(EvaluationReference, EvaluationDeviations, response)
    /\ LET evaluation == evaluate_outputs(state, response)
           updated == evaluation_node(state, evaluation)
       IN /\ context' = add_revisions(context, recorded_requests(evaluation))
          /\ disk' = json_dump(context')
          /\ IF evaluation_node_raises(evaluation)
             THEN /\ pc' = "raised"
                  /\ UNCHANGED <<state, branch, evalRuns, reviseTaken>>
             ELSE /\ state' = updated
                  /\ evalRuns' = evalRuns + 1
                  /\ branch' = should_revise(updated)
                  /\ IF branch' = "raise"
                     THEN pc' = "raised" /\ UNCHANGED reviseTaken
                     ELSE /\ pc' = Route(branch')
                          /\ reviseTaken' =
                               IF branch' = "revise" THEN reviseTaken + 1
                               ELSE reviseTaken
    /\ UNCHANGED <<completion, callFailed, api_key, bus, ui, status, prompt, result, planRuns, integrateRuns, producedIn, context0, storeClient>>

\* integration_node
IntegrateNode ==
    /\ pc = "integrate"
    /\ IF integrate_raises(state)
       THEN /\ pc' = "raised"
            /\ UNCHANGED <<state, context, disk, integrateRuns>>
       ELSE LET final_output == integrate_outputs(state)
            IN /\ context' = set_final_output(context, final_output)
               /\ disk' = json_dump(context')
               /\ state' = [state EXCEPT !.final_output = final_output]
               /\ integrateRuns' = integrateRuns + 1
               /\ pc' = after_integrate
    /\ UNCHANGED <<completion, callFailed, api_key, bus, ui, status, prompt, branch, result, deviations, planRuns, evalRuns,
                   reviseTaken, producedIn, context0, storeClient>>

\* workflow.invoke returns; execute_campaign returns final_output
Return ==
    /\ pc = "END"
    /\ result' = state.final_output
    /\ pc' = "returned"
    /\ UNCHANGED <<completion, callFailed, api_key, bus, ui, state, context, disk, status, prompt, branch, deviations,
                   counters, producedIn, context0, storeClient>>

Next ==
    \/ ClearContext
    \/ \E m \in -1..MaxMaxRevisions : ExecuteCampaign(m)
    \/ \E r \in PlanReference \cup PlanDeviations : PlanNode(r)
    \/ \E a \in Agents : StartSpecialist(a)
    \/ \E a \in Agents :
          \E r \in SpecialistReference(a) \cup SpecialistDeviations(a) :
             FinishSpecialist(a, r)
    \/ \E r \in EvaluationReference \cup EvaluationDeviations : EvaluateNode(r)
    \/ IntegrateNode
    \/ Return

Spec == Init /\ [][Next]_vars


(* ---------------------------- should_revise on its own ----------------- *)
\* The transient states should_revise is applied to: every revision_count
\* and max_revisions within the bounds, every evaluation and every
\* copywriter output below (None, parsed, fallback, and ill-shaped ones).
CopyRecord(content) ==
    [task |-> S("slogan | captions"), content |-> content, agent |-> "copywriter"]

DecideEvaluations ==
    EvaluationRecords
    \cup {None,
          L(<<>>),
          FallbackEvaluation(Text("none", JunkBody)),
          D([revision_requests |-> L(<<Request("data_analyst")>>)]),
          D([ready_for_final |-> B(FALSE)]),
          D([ready_for_final |-> B(TRUE), revision_requests |-> None])}

DecideCopywriterOutputs ==
    {None,
     CopyRecord(CopyContent),
     CopyRecord(CopyFallback(ErrorText)),
     CopyRecord(CopyFallback(Text("none", JunkBody))),
     CopyRecord(L(<<>>)),
     [task |-> S("slogan | captions"), agent |-> "copywriter"]}

DecideInputs ==
    {[initial_state(Brief, m) EXCEPT
         !.manager_plan = PlanA,
         !.revision_count = c,
         !.evaluation = e,
         !.copywriter_output = o] :
       m \in -1..MaxMaxRevisions, c \in 0..MaxRevisionCount,
       e \in DecideEvaluations, o \in DecideCopywriterOutputs}

InitDecide ==
    /\ pc = "decide"
    /\ state \in DecideInputs
    /\ context = InitContext
    /\ disk = Missing
    /\ status = [a \in Agents |-> "idle"]
    /\ prompt = [a \in Agents |-> NoPrompt]
    /\ branch = "none"
    /\ result = None
    /\ deviations = 0
    /\ planRuns = 0
    /\ evalRuns = 0
    /\ reviseTaken = 0
    /\ integrateRuns = 0
    /\ producedIn = [a \in Agents |-> 0]
    /\ context0 = CampaignData(context)
    /\ saver = [a \in Agents |-> NoSave]
    /\ lastOp = NoOp
    /\ ops = 0
    /\ completion = NoCompletion
    /\ callFailed = [a \in Agents |-> FALSE]
    /\ api_key = S("sk-key")
    /\ BusConstructed
    /\ UIIdle

Decide ==
    /\ pc = "decide"
    /\ branch' = should_revise(state)
    /\ pc' = "decided"
    /\ UNCHANGED <<completion, callFailed, api_key, bus, ui, state, context, disk, status, prompt, result, deviations,
                   counters, producedIn, context0, storeClient>>

NextDecide == Decide

SpecDecide == InitDecide /\ [][NextDecide]_vars

(* ---------------------------- the store on its own --------------------- *)
\* A client constructs a ContextManager on a context file and calls its
\* operations one after the other.  save_context is taken in two steps,
\* open(..., 'w') and json.dump, because the process can be interrupted
\* between them; a later ContextManager is constructed on the file as it is.
workflowVars ==
    <<state, status, prompt, branch, result, deviations, counters, producedIn>>

\* files a ContextManager may be constructed on: none, one an earlier
\* campaign left, text that is not JSON, and JSON of other shapes ([], {},
\* an object that has only a brief)
StoreStartFiles ==
    CampaignStartFiles
    \cup {CorruptFile, Document(L(<<>>)), Document(<<>>),
          Document([brief |-> S("Promote V")])}

\* the calls the client makes
StoreCalls ==
    {[op |-> "set_brief", arg |-> b] : b \in {Brief, PreviousBrief}}
    \cup {[op |-> "set_manager_plan", arg |-> PlanA]}
    \cup {[op |-> "add_" \o a \o "_output",
           arg |-> output_record(a, S("task"), FencedJson(ReferenceContent[a]))] :
             a \in Agents}
    \cup {[op |-> "add_revision",
           arg |-> [agent |-> S("outreach"), feedback |-> S("redo outreach"),
                    revised_output |-> EmptyDict]]}
    \cup {[op |-> "set_final_output", arg |-> PreviousReport]}
    \cup {[op |-> "clear_context", arg |-> None]}

MutatorNames == {c.op : c \in StoreCalls}

\* the context a call leaves in memory when it does not raise
Apply(ctx, call) ==
    CASE call.op = "set_brief" -> set_brief(ctx, call.arg)
      [] call.op = "set_manager_plan" -> set_manager_plan(ctx, call.arg)
      [] call.op = "add_copywriter_output" -> add_copywriter_output(ctx, call.arg)
      [] call.op = "add_data_analyst_output" -> add_data_analyst_output(ctx, call.arg)
      [] call.op = "add_outreach_output" -> add_outreach_output(ctx, call.arg)
      [] call.op = "add_revision" ->
            add_revision(ctx, call.arg.agent, call.arg.feedback,
                         call.arg.revised_output)
      [] call.op = "set_final_output" -> set_final_output(ctx, call.arg)
      [] call.op = "clear_context" -> clear_context(ctx)

InitStore ==
    /\ pc = "ready"
    /\ disk \in StoreStartFiles
    /\ context = _load_context(disk)
    /\ context0 = CampaignData(context)
    /\ lastOp = NoOp
    /\ ops = 0
    /\ completion = NoCompletion
    /\ callFailed = [a \in Agents |-> FALSE]
    /\ api_key = S("sk-key")
    /\ BusConstructed
    /\ UIIdle
    /\ saver = [a \in Agents |-> NoSave]
    /\ state = initial_state(None, 1)
    /\ status = [a \in Agents |-> "idle"]
    /\ prompt = [a \in Agents |-> NoPrompt]
    /\ branch = "none"
    /\ result = None
    /\ deviations = 0
    /\ planRuns = 0
    /\ evalRuns = 0
    /\ reviseTaken = 0
    /\ integrateRuns = 0
    /\ producedIn = [a \in Agents |-> 0]

\* a mutator up to save_context's open(self.context_file, 'w'), which
\* truncates the file; or the exception it raises
Mutate(call) ==
    /\ pc = "ready"
    /\ ops < MaxOps
    /\ ops' = ops + 1
    /\ lastOp' = [op |-> call.op, arg |-> call.arg,
                  raised |-> mutator_raises(context, call.op), after |-> lastOp.op]
    /\ IF mutator_raises(context, call.op)
       THEN /\ pc' = "raised"
            /\ UNCHANGED <<context, disk>>
       ELSE /\ context' = Apply(context, call)
            /\ disk' = EmptyFile
            /\ pc' = "saving"
    /\ UNCHANGED <<completion, callFailed, api_key, bus, ui, context0, saver, workflowVars>>

\* json.dump, the file is closed, the mutator returns
FinishSave ==
    /\ pc = "saving"
    /\ disk' = json_dump(context)
    /\ pc' = "ready"
    /\ UNCHANGED <<completion, callFailed, api_key, bus, ui, context, context0, storeClient, workflowVars>>

\* get_context_summary
Summarise ==
    /\ pc = "ready"
    /\ lastOp' = [op |-> "get_context_summary", arg |-> None,
                  raised |-> get_context_summary_raises(context),
                  after |-> lastOp.op]
    /\ pc' = IF get_context_summary_raises(context) THEN "raised" ELSE "ready"
    /\ result' = IF get_context_summary_raises(context) THEN result
                 ELSE [t |-> "summary", lines |-> get_context_summary(context)]
    /\ UNCHANGED <<completion, callFailed, api_key, bus, ui, context, disk, context0, saver, ops,
                   state, status, prompt, branch, deviations, counters, producedIn>>

\* the process is interrupted inside save_context: the file stays empty or
\* keeps the prefix of the document written so far
Interrupt ==
    /\ pc = "saving"
    /\ disk' \in {EmptyFile, PartialFile}
    /\ pc' = "killed"
    /\ UNCHANGED <<completion, callFailed, api_key, bus, ui, context, context0, storeClient, workflowVars>>

\* ContextManager.__init__ on the same file, in a new process or a new object
Reload ==
    /\ pc \in {"ready", "raised", "killed"}
    /\ context' = _load_context(disk)
    /\ lastOp' = [op |-> "reload", arg |-> None, raised |-> FALSE,
                  after |-> IF pc = "ready" THEN lastOp.op ELSE "none"]
    /\ pc' = "ready"
    /\ UNCHANGED <<completion, callFailed, api_key, bus, ui, disk, context0, saver, ops, workflowVars>>

NextStore ==
    \/ \E call \in StoreCalls : Mutate(call)
    \/ FinishSave
    \/ Summarise
    \/ Interrupt
    \/ Reload

SpecStore == InitStore /\ [][NextStore]_vars

(* ---------------------------- concurrent appends ----------------------- *)
\* The three specialist nodes of a round run in threads of one process and
\* share the ContextManager.  Each add_<agent>_output is: append to the
\* in-memory list; save_context opens the file with mode 'w', which
\* truncates it; json.dump encodes the live dict into the file object's
\* buffer; closing the file writes the buffer at the thread's own offset, 0.
\* The threads can be switched between any two of these.

\* the entries of a context: a document with more entries is longer
Size(ctx) ==
    Len(ctx.copywriter_outputs) + Len(ctx.data_analyst_outputs)
    + Len(ctx.outreach_outputs) + Len(ctx.revisions)

FileSize(file) ==
    CASE file.kind = "json" -> Size(file.v)
      [] file.kind = "garbled" -> file.size
      [] OTHER -> 0

\* writing a document at offset 0 of the file as it is: the bytes of a
\* longer earlier content stay behind the document
Overlay(file, doc) ==
    IF Size(doc) >= FileSize(file) THEN json_dump(doc)
    ELSE GarbledFile(FileSize(file))

\* the stores a round starts from: brief and plan set, on no or on an
\* earlier campaign's record
AppendStartContexts ==
    {set_manager_plan(set_brief(_load_context(f), Brief), PlanA) :
        f \in CampaignStartFiles}

InitAppend ==
    /\ pc = "specialists"
    /\ context \in AppendStartContexts
    /\ disk = json_dump(context)
    /\ context0 = CampaignData(context)
    /\ status = [a \in Agents |-> "idle"]
    /\ saver = [a \in Agents |-> NoSave]
    /\ lastOp = NoOp
    /\ ops = 0
    /\ completion = NoCompletion
    /\ callFailed = [a \in Agents |-> FALSE]
    /\ api_key = S("sk-key")
    /\ BusConstructed
    /\ UIIdle
    /\ state = [initial_state(Brief, 1) EXCEPT !.manager_plan = PlanA]
    /\ prompt = [a \in Agents |-> NoPrompt]
    /\ branch = "none"
    /\ result = None
    /\ deviations = 0
    /\ planRuns = 1
    /\ evalRuns = 0
    /\ reviseTaken = 0
    /\ integrateRuns = 0
    /\ producedIn = [a \in Agents |-> 0]

\* add_<agent>_output up to self.context[...].append(output)
AppendEntry(a, response) ==
    /\ status[a] = "idle"
    /\ context' = add_output(context, a,
                             output_record(a, task_description(state, a), response))
    /\ status' = [status EXCEPT ![a] = "appended"]
    /\ UNCHANGED <<completion, callFailed, api_key, bus, ui, pc, state, disk, prompt, branch, result, deviations, counters,
                   producedIn, context0, storeClient>>

\* save_context: open(self.context_file, 'w'); json.dump starts on the
\* context as it is now
OpenFile(a) ==
    /\ status[a] = "appended"
    /\ disk' = EmptyFile
    /\ saver' = [saver EXCEPT ![a] = [open |-> TRUE, snapshot |-> context]]
    /\ status' = [status EXCEPT ![a] = "writing"]
    /\ UNCHANGED <<completion, callFailed, api_key, bus, ui, pc, state, context, prompt, branch, result, deviations,
                   counters, producedIn, context0, lastOp, ops>>

\* json.dump ends and the file is closed: the document, encoded from the
\* context as it was at some moment since the file was opened, is written
\* at offset 0; add_<agent>_output returns
CloseFile(a) ==
    /\ status[a] = "writing"
    /\ \E doc \in {saver[a].snapshot, context} : disk' = Overlay(disk, doc)
    /\ saver' = [saver EXCEPT ![a] = NoSave]
    /\ status' = [status EXCEPT ![a] = "done"]
    /\ UNCHANGED <<completion, callFailed, api_key, bus, ui, pc, state, context, prompt, branch, result, deviations,
                   counters, producedIn, context0, lastOp, ops>>

NextAppend ==
    \/ \E a \in Agents :
          \E r \in SpecialistReference(a) \cup {ErrorText} : AppendEntry(a, r)
    \/ \E a \in Agents : OpenFile(a)
    \/ \E a \in Agents : CloseFile(a)

SpecAppend == InitAppend /\ [][NextAppend]_vars

(* ---------------------------- the call sites on their own -------------- *)
\* What create_plan, evaluate_outputs and the three execute_task do with the
\* completion they are given, for every text below: the failed call's
\* "Error: ..." and, without fence, in a ```json fence, in a bare fence and
\* in a fence with another tag, text that is not JSON, JSON values of every
\* kind and JSON whose strings hold ```.
ParseValues ==
    {PlanA, CopyContent, Analysis, OutreachContent, EvaluationA,
     EmptyDict, L(<<>>), S("ok"), Num(7), None}

ParseBodies ==
    {JunkBody}
    \cup {JsonBody(v) : v \in ParseValues}
    \cup {TickedJsonBody(v) : v \in {CopyContent, Analysis}}

ParseTexts ==
    {ErrorText}
    \cup {Text(f, b) : f \in {"none", "json", "bare", "tagged"}, b \in ParseBodies}

ParseTasks == {S("slogan | captions"), S("")}

InitParse ==
    /\ pc = "parse"
    /\ completion \in ParseTexts
    /\ callFailed = [a \in Agents |-> FALSE]
    /\ api_key = S("sk-key")
    /\ BusConstructed
    /\ UIIdle
    /\ \E t \in ParseTasks : prompt = [a \in Agents |-> [NoPrompt EXCEPT !.task = t]]
    /\ state = initial_state(Brief, 1)
    /\ context = InitContext
    /\ disk = Missing
    /\ context0 = CampaignData(context)
    /\ status = [a \in Agents |-> "idle"]
    /\ saver = [a \in Agents |-> NoSave]
    /\ lastOp = NoOp
    /\ ops = 0
    /\ branch = "none"
    /\ result = None
    /\ deviations = 0
    /\ planRuns = 0
    /\ evalRuns = 0
    /\ reviseTaken = 0
    /\ integrateRuns = 0
    /\ producedIn = [a \in Agents |-> 0]

parseFrame ==
    <<completion, callFailed, api_key, bus, ui, state, context, disk, status, prompt, branch,
      deviations, counters, producedIn, context0, storeClient>>

\* create_plan from the completion on
ParsePlan ==
    /\ pc = "parse"
    /\ result' = [site |-> "plan", out |-> create_plan(state.brief, completion)]
    /\ pc' = "parsed"
    /\ UNCHANGED parseFrame

\* evaluate_outputs from the completion on
ParseEvaluation ==
    /\ pc = "parse"
    /\ result' = [site |-> "evaluate", out |-> evaluate_outputs(state, completion)]
    /\ pc' = "parsed"
    /\ UNCHANGED parseFrame

\* execute_task from the completion to the record it builds
ParseSpecialist(a) ==
    /\ pc = "parse"
    /\ result' = [site |-> a, out |-> output_record(a, prompt[a].task, completion)]
    /\ pc' = "parsed"
    /\ UNCHANGED parseFrame

NextParse ==
    \/ ParsePlan
    \/ ParseEvaluation
    \/ \E a \in Agents : ParseSpecialist(a)

SpecParse == InitParse /\ [][NextParse]_vars

(* --------------- a round after a failed copywriter call --------------- *)
\* The campaign at the point where plan_node has returned the reference plan
\* and the copywriter's completion call has raised inside _call_llm: the
\* copywriter returned its record built from the "Error: ..." text, the
\* other two specialists have not been called yet.
FailedCallPlan == create_plan(Brief, FencedJson(PlanA))

FailedCallState(max_revisions) ==
    LET planned == [initial_state(Brief, max_revisions)
                        EXCEPT !.manager_plan = FailedCallPlan]
        stored == set_manager_plan(set_brief(_load_context(Missing), Brief),
                                   FailedCallPlan)
        task == build_prompt(stored, "copywriter",
                             task_description(planned, "copywriter")).task
    IN [planned EXCEPT
          !.copywriter_output = output_record("copywriter", task, ErrorText)]

FailedCallContext(max_revisions) ==
    add_output(set_manager_plan(set_brief(_load_context(Missing), Brief),
                                FailedCallPlan),
               "copywriter", FailedCallState(max_revisions).copywriter_output)

InitCallFailure ==
    /\ pc = "specialists"
    /\ \E max_revisions \in -1..MaxMaxRevisions :
          /\ state = FailedCallState(max_revisions)
          /\ context = FailedCallContext(max_revisions)
    /\ disk = json_dump(context)
    /\ context0 = CampaignData(_load_context(Missing))
    /\ status = [a \in Agents |-> IF a = "copywriter" THEN "done" ELSE "idle"]
    /\ callFailed = [a \in Agents |-> a = "copywriter"]
    /\ api_key = S("sk-key")
    /\ BusConstructed
    /\ UIIdle
    /\ producedIn = [a \in Agents |-> IF a = "copywriter" THEN 1 ELSE 0]
    /\ prompt = [a \in Agents |-> NoPrompt]
    /\ completion = NoCompletion
    /\ saver = [a \in Agents |-> NoSave]
    /\ lastOp = NoOp
    /\ ops = 0
    /\ branch = "none"
    /\ result = None
    /\ deviations = 0
    /\ planRuns = 1
    /\ evalRuns = 0
    /\ reviseTaken = 0
    /\ integrateRuns = 0

NextCallFailure ==
    \/ \E a \in Agents : StartSpecialist(a)
    \/ \E a \in Agents : \E response \in SpecialistReference(a) \cup SpecialistDeviations(a) :
          FinishSpecialist(a, response)
    \/ \E response \in EvaluationReference \cup EvaluationDeviations :
          EvaluateNode(response)
    \/ IntegrateNode
    \/ Return

SpecCallFailure == InitCallFailure /\ [][NextCallFailure]_vars

(* ------------- the decision and the integrator on their own ----------- *)
\* should_revise and integrate_outputs are called, in any order and more
\* than once, on a transient state, next to a store that holds an earlier
\* campaign.  The transient states are those of a campaign (the initial
\* state included, whose manager_plan and outputs are None) and partially
\* empty ones.
NoDict == [k \in {} |-> None]

PureTask == S("slogan | captions")

PurePlans == {None, EmptyDict, PlanA, create_plan(Brief, Text("none", JunkBody))}

PureOutputs(a) ==
    {None,
     NoDict,
     output_record(a, PureTask, FencedJson(ReferenceContent[a])),
     output_record(a, PureTask, Text("none", JunkBody))}
    \cup (IF a = "outreach" THEN {}
          ELSE {output_record(a, PureTask, Bare(EmptyDict))})
    \cup (IF a = "data_analyst"
          THEN {output_record(a, PureTask, Bare(L(<<>>))),
                output_record(a, PureTask,
                    Bare(D([target_audiences |-> L(<<S("Gen Z")>>)]))),
                output_record(a, PureTask,
                    Bare(D([target_audiences |->
                               L(<<D([size |-> S("large")]),
                                   D([segment_name |-> S("Gen Z")])>>)])))}
          ELSE {})

PureStates ==
    {[initial_state(Brief, 2) EXCEPT
         !.manager_plan = plan,
         !.copywriter_output = c,
         !.data_analyst_output = d,
         !.outreach_output = o,
         !.evaluation = e,
         !.revision_count = n] :
       plan \in PurePlans,
       c \in PureOutputs("copywriter"),
       d \in PureOutputs("data_analyst"),
       o \in PureOutputs("outreach"),
       e \in {None} \cup EvaluationRecords,
       n \in {0, 2}}

NoResult == [decision |-> "none", report |-> None, raised |-> FALSE]

InitPure ==
    /\ pc = "pure"
    /\ state \in PureStates
    /\ context = PreviousContext
    /\ disk = json_dump(context)
    /\ result = NoResult
    /\ ops = 0
    /\ status = [a \in Agents |-> "idle"]
    /\ prompt = [a \in Agents |-> NoPrompt]
    /\ branch = "none"
    /\ deviations = 0
    /\ planRuns = 0
    /\ evalRuns = 0
    /\ reviseTaken = 0
    /\ integrateRuns = 0
    /\ producedIn = [a \in Agents |-> 0]
    /\ context0 = CampaignData(context)
    /\ saver = [a \in Agents |-> NoSave]
    /\ lastOp = NoOp
    /\ completion = NoCompletion
    /\ callFailed = [a \in Agents |-> FALSE]
    /\ api_key = S("sk-key")
    /\ BusConstructed
    /\ UIIdle

pureFrame ==
    <<completion, callFailed, api_key, bus, ui, pc, status, prompt, branch, deviations, counters,
      producedIn, context0, saver, lastOp>>

\* a call of should_revise(state)
CallShouldRevise ==
    /\ pc = "pure"
    /\ ops < MaxOps
    /\ ops' = ops + 1
    /\ result' = [result EXCEPT !.decision = should_revise(state)]
    /\ UNCHANGED <<state, context, disk>>
    /\ UNCHANGED pureFrame

CallIntegrateOutputs_stores_report ==
    /\ pc = "pure"
    /\ ops < MaxOps
    /\ ops' = ops + 1
    /\ IF integrate_raises(state)
       THEN /\ result' = [result EXCEPT !.raised = TRUE]
            /\ UNCHANGED <<state, context, disk>>
       ELSE /\ result' = [result EXCEPT !.report = integrate_outputs(state)]
            /\ context' = set_final_output(context, integrate_outputs(state))
            /\ disk' = json_dump(context')
            /\ UNCHANGED state
    /\ UNCHANGED pureFrame

\* a call of integrate_outputs(state)
CallIntegrateOutputs ==
    /\ pc = "pure"
    /\ ops < MaxOps
    /\ ops' = ops + 1
    /\ result' = IF integrate_raises(state)
                 THEN [result EXCEPT !.raised = TRUE]
                 ELSE [result EXCEPT !.report = integrate_outputs(state)]
    /\ UNCHANGED <<state, context, disk>>
    /\ UNCHANGED pureFrame

NextPure ==
    \/ CallShouldRevise
    \/ CallIntegrateOutputs

SpecPure == InitPure /\ [][NextPure]_vars

(* ------------------------ construction in the CLI --------------------- *)
\* automark.py main from the parsed arguments on: it constructs the
\* ContextManager on the context file, then the ManagerAgent, then calls
\* execute_campaign; any exception is caught and main returns 1.  A
\* specialist can also be constructed on its own on the ContextManager.
\* The environment's OPENAI_API_KEY is absent, empty or a key.
ApiKeys == {None, S(""), S("sk-key")}

CLIStartFiles ==
    CampaignStartFiles \cup {EmptyFile, PartialFile, CorruptFile}

InitCLI ==
    /\ pc = "main"
    /\ disk \in CLIStartFiles
    /\ \E revisions \in -1..MaxMaxRevisions :
          state = initial_state(None, revisions)
    /\ context = None
    /\ context0 = None
    /\ result = None
    /\ status = [a \in Agents |-> "idle"]
    /\ prompt = [a \in Agents |-> NoPrompt]
    /\ branch = "none"
    /\ deviations = 0
    /\ planRuns = 0
    /\ evalRuns = 0
    /\ reviseTaken = 0
    /\ integrateRuns = 0
    /\ producedIn = [a \in Agents |-> 0]
    /\ saver = [a \in Agents |-> NoSave]
    /\ lastOp = NoOp
    /\ ops = 0
    /\ completion = NoCompletion
    /\ callFailed = [a \in Agents |-> FALSE]
    /\ api_key \in ApiKeys
    /\ BusConstructed
    /\ UIIdle

cliFrame ==
    <<completion, callFailed, api_key, bus, ui, state, status, prompt, branch, deviations,
      counters, producedIn, context0, storeClient>>

ConstructContextManager_saves ==
    /\ pc = "main"
    /\ context' = _load_context(disk)
    /\ disk' = json_dump(context')
    /\ pc' = "context_manager"
    /\ UNCHANGED <<result, cliFrame>>

\* ContextManager(context_file=args.context_file)
ConstructContextManager ==
    /\ pc = "main"
    /\ context' = _load_context(disk)
    /\ pc' = "context_manager"
    /\ UNCHANGED <<disk, result, cliFrame>>

\* ManagerAgent(context_manager, data_file): raises ValueError when the key
\* is not set, otherwise constructs the client, the specialists and the graph
ConstructManagerAgent ==
    /\ pc = "context_manager"
    /\ pc' = IF ~Truthy(api_key) THEN "raised" ELSE "idle"
    /\ UNCHANGED <<context, disk, result, cliFrame>>

\* BaseAgent.__init__ of a specialist constructed on its own
ConstructSpecialist(a) ==
    /\ pc = "context_manager"
    /\ pc' = IF ~Truthy(api_key) THEN "raised" ELSE "constructed"
    /\ UNCHANGED <<context, disk, result, cliFrame>>

\* main's "except Exception": print the error, return 1
MainReturnsError ==
    /\ pc = "raised"
    /\ result' = Num(1)
    /\ pc' = "exit"
    /\ UNCHANGED <<context, disk, cliFrame>>

NextCLI ==
    \/ ConstructContextManager
    \/ ConstructManagerAgent
    \/ \E a \in Agents : ConstructSpecialist(a)
    \/ MainReturnsError
    \/ ExecuteCampaign(state.max_revisions)

SpecCLI == InitCLI /\ [][NextCLI]_vars

(* ----------------------------- the message bus ------------------------- *)
\* agent_communication.py: AgentCommunicationBus keeps a log of the messages
\* sent and a dict of the requests that wait for a response, keyed by
\* message_id.  A message's default message_id is the clock reading taken
\* when the AgentMessage is constructed, str(datetime.now().timestamp()):
\* the clock never runs backwards here, and two messages constructed within
\* one reading of it carry the same message_id.
MaxMessages == 3
MaxClock == 1

\* MessageType
MessageType == {"request", "response", "notification", "query", "proposal"}

BusAgents == {"manager", "copywriter"}

\* str(datetime.now().timestamp()) at clock reading n
Timestamp(n) == [t |-> "str", stamp |-> n]

\* AgentMessage(...), message_id left to its default_factory at reading now;
\* content and timestamp play no part in the bus and are left out
AgentMessage(from_agent, to_agent, message_type, requires_response, correlation_id, now) ==
    [from_agent |-> from_agent,
     to_agent |-> to_agent,
     message_type |-> message_type,
     requires_response |-> requires_response,
     message_id |-> Timestamp(now),
     correlation_id |-> correlation_id]

\* d[k] = v and d.pop(k, None) on a dict
dict_set(d, k, v) == [x \in DOMAIN d \cup {k} |-> IF x = k THEN v ELSE d[x]]
dict_pop(d, k) == [x \in DOMAIN d \ {k} |-> d[x]]

\* the bus as a value: its two fields
Bus == [messages |-> messages, pending_requests |-> pending_requests]

send_message_forgets_answered(b, message) ==
    LET answered == message.message_type = "response"
                    /\ message.correlation_id # None
                    /\ message.correlation_id # S("")
        kept == SelectSeq(b.messages,
                          LAMBDA m : ~(answered
                                       /\ m.message_id = message.correlation_id))
        added == IF message.requires_response
                    /\ message.message_type = "request"
                 THEN dict_set(b.pending_requests, message.message_id, message)
                 ELSE b.pending_requests
    IN [messages |-> Append(kept, message),
        pending_requests |->
            IF answered THEN dict_pop(added, message.correlation_id)
            ELSE added]

\* AgentCommunicationBus.send_message
send_message(b, message) ==
    LET added == IF message.requires_response
                    /\ message.message_type = "request"
                 THEN dict_set(b.pending_requests, message.message_id, message)
                 ELSE b.pending_requests
    IN [messages |-> Append(b.messages, message),
        pending_requests |->
            IF /\ message.message_type = "response"
               /\ message.correlation_id # None
               /\ message.correlation_id # S("")
            THEN dict_pop(added, message.correlation_id)
            ELSE added]

\* AgentCommunicationBus.create_response, constructed at reading now
create_response(original_message, now) ==
    AgentMessage(original_message.to_agent, original_message.from_agent,
                 "response", FALSE, original_message.message_id, now)

\* AgentCommunicationBus.get_messages_for_agent; message_type None = any
get_messages_for_agent(b, agent_name, message_type) ==
    SelectSeq(b.messages,
              LAMBDA m : /\ m.to_agent = agent_name
                         /\ message_type # "any"
                               => m.message_type = message_type)

\* AgentCommunicationBus.get_conversation_history
get_conversation_history(b, agent1, agent2) ==
    SelectSeq(b.messages,
              LAMBDA m : \/ m.from_agent = agent1 /\ m.to_agent = agent2
                         \/ m.from_agent = agent2 /\ m.to_agent = agent1)

\* the messages a caller constructs at clock reading now: requests either
\* way that ask for a response and one that does not, messages of the
\* other types that ask for a response, and responses whose correlation_id
\* is absent, empty or the message_id of this very reading
Outgoing(now) ==
    {AgentMessage("manager", "copywriter", "request", rr, None, now) :
        rr \in BOOLEAN}
    \cup {AgentMessage("copywriter", "manager", "request", TRUE, None, now)}
    \cup {AgentMessage("manager", "copywriter", ty, TRUE, None, now) :
            ty \in MessageType \ {"request", "response"}}
    \cup {AgentMessage("copywriter", "manager", "response", FALSE, c, now) :
            c \in {None, S(""), Timestamp(now)}}

\* what a getter handed back
Listing(seq) == [t |-> "messages", items |-> seq]

\* the call a client of the bus made last and what it was asked for
BusOp(op, arg) == [op |-> op, arg |-> arg, raised |-> FALSE, after |-> "none"]

busFrame ==
    <<pc, state, context, disk, status, prompt, branch, deviations,
      counters, producedIn, context0, saver, ops, completion, callFailed,
      api_key, ui>>

InitBus ==
    /\ pc = "bus"
    /\ state = initial_state(None, 1)
    /\ disk = Missing
    /\ context = InitContext
    /\ context0 = None
    /\ result = None
    /\ status = [a \in Agents |-> "idle"]
    /\ prompt = [a \in Agents |-> NoPrompt]
    /\ branch = "none"
    /\ deviations = 0
    /\ planRuns = 0
    /\ evalRuns = 0
    /\ reviseTaken = 0
    /\ integrateRuns = 0
    /\ producedIn = [a \in Agents |-> 0]
    /\ saver = [a \in Agents |-> NoSave]
    /\ lastOp = NoOp
    /\ ops = 0
    /\ completion = NoCompletion
    /\ callFailed = [a \in Agents |-> FALSE]
    /\ api_key = S("sk-key")
    /\ BusConstructed
    /\ UIIdle

\* the clock moves on to its next reading
Tick ==
    /\ clock < MaxClock
    /\ clock' = clock + 1
    /\ UNCHANGED <<messages, pending_requests, result, lastOp, busFrame>>

\* bus.send_message(AgentMessage(...)), which returns None
SendMessage(message) ==
    /\ Len(messages) < MaxMessages
    /\ messages' = send_message(Bus, message).messages
    /\ pending_requests' = send_message(Bus, message).pending_requests
    /\ result' = None
    /\ lastOp' = BusOp("send_message", None)
    /\ UNCHANGED <<clock, busFrame>>

\* bus.send_message(bus.create_response(original_message, content)) for a
\* message the caller received
SendResponse(original_message) ==
    SendMessage(create_response(original_message, clock))

\* bus.get_messages_for_agent(agent_name, message_type)
GetMessagesForAgent(agent_name, message_type) ==
    /\ result' = Listing(get_messages_for_agent(Bus, agent_name, message_type))
    /\ lastOp' = BusOp("get_messages_for_agent", <<agent_name, message_type>>)
    /\ UNCHANGED <<bus, busFrame>>

\* bus.get_conversation_history(agent1, agent2)
GetConversationHistory(agent1, agent2) ==
    /\ result' = Listing(get_conversation_history(Bus, agent1, agent2))
    /\ lastOp' = BusOp("get_conversation_history", <<agent1, agent2>>)
    /\ UNCHANGED <<bus, busFrame>>

\* AgentCommunicationBus.clear_messages, which returns None
ClearMessages ==
    /\ messages' = <<>>
    /\ pending_requests' = [id \in {} |-> None]
    /\ result' = None
    /\ lastOp' = BusOp("clear_messages", None)
    /\ UNCHANGED <<clock, busFrame>>

NextBus ==
    \/ Tick
    \/ \E message \in Outgoing(clock) : SendMessage(message)
    \/ \E i \in 1..Len(messages) : SendResponse(messages[i])
    \/ \E message_type \in {"any", "request"} :
          GetMessagesForAgent("copywriter", message_type)
    \/ GetConversationHistory("manager", "copywriter")
    \/ ClearMessages

SpecBus == InitBus /\ [][NextBus]_vars

(* --------------------------- the Streamlit page ------------------------ *)
\* app.py: the run button handler of main sets campaign_running, calls the
\* wrapper execute_campaign and clears campaign_running on each of its
\* branches.  The wrapper constructs the ContextManager and the
\* ManagerAgent, points sys.stdout at a StringIO, runs
\* manager.execute_campaign and points sys.stdout back, also in its
\* "except Exception" handler, which returns None.

\* what the text area can hold; str.strip() of it
PageBriefs == {S(""), S("   "), Brief}
strip(text) == IF text = S("   ") THEN S("") ELSE text

uiFrame ==
    <<completion, callFailed, api_key, bus, state, status, prompt, branch,
      deviations, counters, producedIn, context0, storeClient>>

InitUI ==
    /\ pc = "page"
    /\ disk \in CampaignStartFiles
    /\ \E revisions \in 1..MaxMaxRevisions :
          state = initial_state(None, revisions)
    /\ context = None
    /\ context0 = None
    /\ result = None
    /\ status = [a \in Agents |-> "idle"]
    /\ prompt = [a \in Agents |-> NoPrompt]
    /\ branch = "none"
    /\ deviations = 0
    /\ planRuns = 0
    /\ evalRuns = 0
    /\ reviseTaken = 0
    /\ integrateRuns = 0
    /\ producedIn = [a \in Agents |-> 0]
    /\ saver = [a \in Agents |-> NoSave]
    /\ lastOp = NoOp
    /\ ops = 0
    /\ completion = NoCompletion
    /\ callFailed = [a \in Agents |-> FALSE]
    /\ api_key \in ApiKeys
    /\ BusConstructed
    /\ UIIdle

\* main, "if run_button:": an empty brief is refused, otherwise
\* campaign_running is set and the wrapper is called
RunButton(brief) ==
    /\ pc = "page"
    /\ IF strip(brief) = S("")
       THEN pc' = "handled" /\ UNCHANGED campaign_running
       ELSE pc' = "main" /\ campaign_running' = TRUE
    /\ UNCHANGED <<sys_stdout, old_stdout, context, disk, result, uiFrame>>

\* old_stdout = sys.stdout; sys.stdout = captured_output
RedirectStdout ==
    /\ pc = "idle"
    /\ old_stdout = Unbound
    /\ old_stdout' = sys_stdout
    /\ sys_stdout' = "captured_output"
    /\ UNCHANGED <<pc, campaign_running, context, disk, result, uiFrame>>

\* manager.execute_campaign returned: sys.stdout = old_stdout, the progress
\* log is stored and final_output is returned
WrapperReturns ==
    /\ pc = "returned"
    /\ sys_stdout' = old_stdout
    /\ pc' = "completed"
    /\ UNCHANGED <<old_stdout, campaign_running, context, disk, result, uiFrame>>

WrapperExcept_keeps_capture ==
    /\ pc = "raised"
    /\ result' = None
    /\ pc' = "caught"
    /\ UNCHANGED <<sys_stdout, old_stdout, campaign_running, context, disk,
                   uiFrame>>

\* the wrapper's "except Exception": sys.stdout = old_stdout when the local
\* is bound, the error goes to the progress log, None is returned
WrapperExcept ==
    /\ pc = "raised"
    /\ sys_stdout' = IF old_stdout # Unbound THEN old_stdout ELSE sys_stdout
    /\ result' = None
    /\ pc' = "caught"
    /\ UNCHANGED <<old_stdout, campaign_running, context, disk, uiFrame>>

\* main after the wrapper returned: "if result:" and its else both end with
\* campaign_running = False
RunHandlerFinishes ==
    /\ pc \in {"completed", "caught"}
    /\ campaign_running' = FALSE
    /\ pc' = "handled"
    /\ UNCHANGED <<sys_stdout, old_stdout, context, disk, result, uiFrame>>

NextUI ==
    \/ \E brief \in PageBriefs : RunButton(brief)
    \/ ConstructContextManager
    \/ ConstructManagerAgent
    \/ RedirectStdout
    \/ old_stdout # Unbound /\ ExecuteCampaign(state.max_revisions)
    \/ \E r \in PlanReference \cup PlanDeviations : PlanNode(r)
    \/ \E a \in Agents : StartSpecialist(a)
    \/ \E a \in Agents :
          \E r \in SpecialistReference(a) \cup SpecialistDeviations(a) :
             FinishSpecialist(a, r)
    \/ \E r \in EvaluationReference \cup EvaluationDeviations : EvaluateNode(r)
    \/ IntegrateNode
    \/ Return
    \/ WrapperReturns
    \/ WrapperExcept
    \/ RunHandlerFinishes

SpecUI == InitUI /\ [][NextUI]_vars

(* ---------------------------- properties ------------------------------- *)
\* the evaluation is an Evaluation Record: a dict carrying a boolean
\* ready_for_final and a list of revision_requests
IsEvaluationRecord(e) ==
    /\ e.t = "dict"
    /\ {"ready_for_final", "revision_requests"} \subseteq DOMAIN e.d
    /\ e.d.ready_for_final.t = "bool"
    /\ e.d.revision_requests.t = "list"

\* the copywriter output is absent or a Specialist Output Record whose
\* content is a dict (parsed or fallback)
IsCopyRecordOrNone(o) ==
    \/ o = None
    \/ "content" \notin DOMAIN o
    \/ o.content.t = "dict"

\* the copywriter content carries a raw_response that contains "Error:"
CarriesErrorMarker(o) ==
    /\ o # None
    /\ "content" \in DOMAIN o
    /\ o.content.t = "dict"
    /\ "raw_response" \in DOMAIN o.content.d
    /\ o.content.d.raw_response.t = "text"
    /\ o.content.d.raw_response.x.body.k = "err"

AsksForRevision(e) ==
    /\ Len(e.d.revision_requests.l) > 0
    /\ e.d.ready_for_final.b

\* C1: whenever should_revise is applied to a state with
\* revision_count >= max_revisions it returns "finalize", whatever the
\* evaluation and the copywriter output are.
C1_CeilingFinalizes ==
    (pc = "decided" /\ state.revision_count >= state.max_revisions)
        => branch = "finalize"

\* C1 witness: the ceiling is reached in a state whose evaluation asks for a
\* revision with ready_for_final true and whose copywriter output is clean.
C1_Witness ==
    /\ pc = "decided"
    /\ state.revision_count = state.max_revisions
    /\ IsEvaluationRecord(state.evaluation)
    /\ AsksForRevision(state.evaluation)
    /\ state.copywriter_output = CopyRecord(CopyContent)
    /\ branch = "finalize"

\* C2: on an Evaluation Record and a copywriter record without error marker,
\* should_revise returns "revise" exactly when revision_requests is non-empty
\* and ready_for_final is true and revision_count < max_revisions, and
\* "finalize" in every other case.
C2_ReviseExactlyWhen ==
    (/\ pc = "decided"
     /\ IsEvaluationRecord(state.evaluation)
     /\ IsCopyRecordOrNone(state.copywriter_output)
     /\ ~CarriesErrorMarker(state.copywriter_output))
        => /\ branch \in {"revise", "finalize"}
           /\ branch = "revise" <=>
                 /\ Len(state.evaluation.d.revision_requests.l) > 0
                 /\ state.evaluation.d.ready_for_final.b = TRUE
                 /\ state.revision_count < state.max_revisions

\* C2 witness: a decided state in which "revise" was returned.
C2_Witness ==
    /\ pc = "decided"
    /\ IsEvaluationRecord(state.evaluation)
    /\ IsCopyRecordOrNone(state.copywriter_output)
    /\ branch = "revise"

\* C3: should_revise returns "finalize" whenever the copywriter output's
\* content.raw_response contains "Error:", whatever the evaluation is.
C3_ErrorMarkerFinalizes ==
    (pc = "decided" /\ CarriesErrorMarker(state.copywriter_output))
        => branch = "finalize"

\* C3 witness: an error marker below the ceiling, with an evaluation that
\* asks for a revision and says ready_for_final.
C3_Witness ==
    /\ pc = "decided"
    /\ CarriesErrorMarker(state.copywriter_output)
    /\ state.revision_count < state.max_revisions
    /\ IsEvaluationRecord(state.evaluation)
    /\ AsksForRevision(state.evaluation)
    /\ branch = "finalize"


\* execute_campaign has stopped: it returned, or a step raised
Stopped == pc \in {"returned", "raised"}

\* the keys of the report integrate_outputs builds
ReportKeys ==
    {"campaign_brief", "strategy", "target_audience", "core_message",
     "recommended_channels", "content_examples", "outreach_templates",
     "kpis", "timing_recommendations"}

IsCompleteReport(r) ==
    /\ r.t = "dict"
    /\ DOMAIN r.d = ReportKeys
    /\ DOMAIN r.d.content_examples.d =
          {"slogan", "instagram_captions", "facebook_ads", "twitter_post",
           "linkedin_post"}
    /\ DOMAIN r.d.outreach_templates.d =
          {"cold_email", "influencer_pitch", "media_pitch"}

\* C4: for every max_revisions (0 and negative included) and every sequence
\* of completions, execute_campaign stops only after integrate and END, and
\* takes the "revise" edge at most max_revisions times (never, when
\* max_revisions is not positive).
C4_AlwaysReachesIntegrate ==
    /\ Stopped => (pc = "returned" /\ integrateRuns = 1)
    /\ reviseTaken <= (IF state.max_revisions > 0 THEN state.max_revisions ELSE 0)

\* C5: with max_revisions = 1, a first round whose evaluation has a revision
\* request and ready_for_final true (and whose copywriter output carries no
\* error marker) is followed by the "revise" edge, so that plan runs a
\* second time before integrate.
C5_OneReworkRoundByDefault ==
    (/\ state.max_revisions = 1
     /\ integrateRuns = 1
     /\ IsEvaluationRecord(state.evaluation)
     /\ AsksForRevision(state.evaluation)
     /\ ~CarriesErrorMarker(state.copywriter_output))
        => (reviseTaken = 1 /\ planRuns = 2)

\* C6: revision_count is 0 when execute_campaign starts, grows by exactly 1
\* with every completed pass through evaluate, whichever branch follows, and
\* is changed by no other node: it always equals the number of passes.
C6_RevisionCountCountsEvaluations ==
    state.revision_count = evalRuns

\* C6 witness: a run that passed evaluate twice, once followed by "revise"
\* and once by "finalize", has returned.
C6_Witness ==
    /\ pc = "returned"
    /\ evalRuns = 2
    /\ reviseTaken = 1

\* C7: with max_revisions = 0, for every sequence of completions the run
\* reaches integrate after exactly one pass through evaluate, with
\* revision_count 1 at the end, and plan runs exactly once.
C7_ZeroRevisionsSinglePass ==
    state.max_revisions = 0 =>
        /\ planRuns <= 1
        /\ evalRuns <= 1
        /\ reviseTaken = 0
        /\ Stopped => /\ pc = "returned"
                      /\ planRuns = 1
                      /\ evalRuns = 1
                      /\ integrateRuns = 1
                      /\ state.revision_count = 1

\* C8: evaluate runs only when the copywriter, data-analyst and outreach
\* nodes of the current round have all returned, the three outputs in the
\* transient state are the ones produced after the latest plan step, and
\* evaluate runs once per round (a new plan step starts only after the
\* previous round was evaluated).
C8_EvaluateJoinsTheRound ==
    [][/\ (evalRuns' # evalRuns
           \/ Len(context'.revisions) > Len(context.revisions)) =>
             /\ \A a \in Agents :
                   /\ status[a] = "done"
                   /\ producedIn[a] = planRuns
                   /\ state[OutputField[a]] # None
             /\ evalRuns = planRuns - 1
       /\ planRuns' # planRuns => evalRuns = planRuns
      ]_vars

\* C8 witness: the evaluate step of a second round has run, with outputs of
\* the first round having been in the transient state meanwhile.
C8_Witness ==
    /\ evalRuns = 2
    /\ planRuns = 2
    /\ \A a \in Agents : producedIn[a] = 2

\* C9: whatever the completion service returns at any call site, no step of
\* the workflow raises, and execute_campaign returns a report that has every
\* field of the report shape.
C9_NeverRaises ==
    /\ pc # "raised"
    /\ pc = "returned" => IsCompleteReport(result)

\* C10: once integrate has run, no plan, specialist or evaluate step runs
\* again and the final_output of the transient state and of the store does
\* not change.
C10_IntegrateIsTerminal ==
    [][integrateRuns >= 1 =>
          /\ planRuns' = planRuns
          /\ evalRuns' = evalRuns
          /\ integrateRuns' = integrateRuns
          /\ status' = status
          /\ pc' \in {"END", "returned"}
          /\ state'.final_output = state.final_output
          /\ context'.final_output = context.final_output
          /\ _load_context(disk').final_output = _load_context(disk).final_output
      ]_vars

\* C10 witness: execute_campaign has returned after integrate, the report
\* being in the transient state and in the store.
C10_Witness ==
    /\ pc = "returned"
    /\ integrateRuns = 1
    /\ state.final_output # None
    /\ context.final_output = state.final_output
    /\ result = state.final_output

\* the entries of a store sequence added since execute_campaign was called
AddedSince0(f) == Len(context[f]) - Len(context0[f])

\* C11: every round is one plan step followed by exactly one invocation of
\* each of the three specialists, each with the task list of the plan of
\* that round; a "revise" decision leads back to plan, and the next round
\* runs all three specialists again, whichever agents the requests named.
C11_RoundReplansAndRerunsAll ==
    [][/\ evalRuns' # evalRuns =>
             /\ evalRuns = planRuns - 1
             /\ \A a \in Agents :
                   /\ AddedSince0(StoreField[a]) = planRuns
                   /\ producedIn[a] = planRuns
                   /\ state[OutputField[a]] =
                         context[StoreField[a]][Len(context[StoreField[a]])]
                   /\ state[OutputField[a]].task =
                         S(JoinStrings(
                             (IF TasksField[a] \in DOMAIN state.manager_plan.d
                              THEN state.manager_plan.d[TasksField[a]]
                              ELSE DefaultTasks[a]).l))
             /\ branch' = "revise" =>
                   /\ pc' = "plan"
                   /\ state'.manager_plan = state.manager_plan
       /\ planRuns' # planRuns =>
             /\ planRuns' = planRuns + 1
             /\ context'.manager_plan = state'.manager_plan
             /\ \A a \in Agents :
                   /\ status'[a] = "idle"
                   /\ AddedSince0(StoreField[a]) = planRuns
       /\ \A a \in Agents :
             Len(context'[StoreField[a]]) <= Len(context0'[StoreField[a]]) + planRuns'
      ]_vars

\* C11 witness: the second round was evaluated after a "revise" whose
\* requests named only the outreach and copywriter agents, and the data
\* analyst has run in both rounds.
C11_Witness ==
    /\ evalRuns = 2
    /\ reviseTaken >= 1
    /\ AddedSince0("revisions") > 0
    /\ \A i \in (Len(context0.revisions) + 1)..Len(context.revisions) :
          context.revisions[i].agent # S("data_analyst")
    /\ \A a \in Agents : AddedSince0(StoreField[a]) = 2 /\ producedIn[a] = 2

\* the store as the plan step of the current round left it: the entries the
\* specialists of this round have appended so far are taken off
RoundStartContext ==
    [f \in DOMAIN context |->
        IF f \in {StoreField[a] : a \in Agents}
        THEN SubSeq(context[f], 1, Len(context0[f]) + planRuns - 1)
        ELSE context[f]]

\* C12: in every interleaving of the three specialists of a round, what a
\* specialist conditions its completion on (brief, context summary, brand
\* message, task description) is what it reads from the store as the plan
\* step left it, whichever of its siblings have already appended.
C12_SpecialistsOrderInsensitive ==
    \A a \in Agents :
        (pc = "specialists" /\ status[a] = "called") =>
            prompt[a] = build_prompt(RoundStartContext, a, task_description(state, a))

\* C14: a mutator is atomic with respect to interruption: every step that
\* changes the context file leaves in it a complete document, the one of
\* the new in-memory context, and never an empty or partial file.
C14_MutatorsAtomic ==
    [][disk' # disk => (disk'.kind = "json" /\ disk'.v = context')]_vars

\* a mutator has returned (it did not raise, and was not interrupted)
MutatorReturned ==
    /\ pc = "ready"
    /\ lastOp.op \in MutatorNames
    /\ ~lastOp.raised

\* C15: when a mutator returns, the document in the context file is the
\* in-memory context, and a ContextManager constructed on that file holds
\* the same context.
C15_WriteThrough ==
    MutatorReturned =>
        /\ disk.kind = "json"
        /\ disk.v = context
        /\ _load_context(disk) = context

\* C15 witness: mutators of several kinds have returned, the last one an
\* append, on a store that holds a brief, outputs and a final report.
C15_Witness ==
    /\ MutatorReturned
    /\ lastOp.op = "add_outreach_output"
    /\ ops >= 2
    /\ context.brief # None
    /\ context.final_output # None
    /\ Len(context.outreach_outputs) >= 2
    /\ disk = json_dump(context)

\* C16: a store reloaded from the file after set_brief(X) returned has
\* brief = X and a campaign_id that is not null.
C16_BriefSurvivesReload ==
    [][(/\ MutatorReturned
        /\ lastOp.op = "set_brief"
        /\ lastOp'.op = "reload")
          => /\ context'.brief = lastOp.arg
             /\ context'.campaign_id # None
      ]_vars

\* C16 witness: a store has been reloaded after set_brief('Promote X') on a
\* store that had no such brief before, and holds that brief and an id.
C16_Witness ==
    /\ lastOp.op = "reload"
    /\ lastOp.after = "set_brief"
    /\ "brief" \notin DOMAIN context0 \/ context0.brief # Brief
    /\ context.brief = Brief
    /\ context.campaign_id = NewCampaignId

\* C17: constructing a ContextManager never raises and, when the file is
\* missing, unparseable or JSON of another shape, yields the fresh structure
\* with all ten fields, so that no later mutator or get_context_summary
\* raises.
C17_LoadFailsSoft ==
    /\ lastOp.op \in {"none", "reload"} =>
          /\ IsDictContext(context)
          /\ DOMAIN context = DOMAIN InitContext
    /\ ~lastOp.raised

\* C18: from an empty store, whatever store operations follow, a brief that
\* is not null comes with a campaign_id that is not null.
C18_BriefImpliesCampaignId ==
    context0 = CampaignData(InitContext) =>
        (context.brief # None => context.campaign_id # None)

\* C18 witness: from an empty store, set_brief has returned after at least
\* two other calls, among them a clear_context or another set_brief.
C18_Witness ==
    /\ context0 = CampaignData(InitContext)
    /\ MutatorReturned
    /\ lastOp.op = "set_brief"
    /\ lastOp.after \in {"clear_context", "set_brief"}
    /\ ops >= 3
    /\ context.brief = PreviousBrief
    /\ context.campaign_id # None

\* C13: in every interleaving of the three add_<agent>_output calls of a
\* round no appended entry is lost from the in-memory context, and once all
\* three have returned the document in the context file is the in-memory
\* context, with all three entries.
C13_ConcurrentAppendsSafe ==
    /\ \A a \in Agents :
          status[a] # "idle" => AddedSince0(StoreField[a]) = 1
    /\ (\A a \in Agents : status[a] = "done") =>
          /\ disk.kind = "json"
          /\ disk.v = context

\* the four sequences of the store
SequenceFields ==
    {"copywriter_outputs", "data_analyst_outputs", "outreach_outputs", "revisions"}

IsPrefix(s, t) == Len(s) <= Len(t) /\ SubSeq(t, 1, Len(s)) = s

\* C19: the output sequences are append-only: no step removes, reorders or
\* replaces an entry of the three output sequences or of revisions; a
\* specialist invocation appends exactly one entry, its record, at the end
\* of its own sequence; and when an execute_campaign run with k passes
\* through evaluate is over, each output sequence has grown by exactly k and
\* ends with the output of the final round.
C19_OutputsAppendOnly ==
    [][/\ \A f \in SequenceFields : IsPrefix(context[f], context'[f])
       /\ \A a \in Agents :
             (status[a] = "called" /\ status'[a] = "done") =>
                 context'[StoreField[a]] =
                     Append(context[StoreField[a]], state'[OutputField[a]])
       /\ (~Stopped /\ Stopped') =>
             \A a \in Agents :
                 /\ Len(context'[StoreField[a]]) =
                       Len(context0'[StoreField[a]]) + evalRuns'
                 /\ context'[StoreField[a]][Len(context'[StoreField[a]])] =
                       state'[OutputField[a]]
      ]_vars

\* C20: final_output is set exactly once per execute_campaign call, by the
\* integrate step, as the call's last store mutation, and from the moment
\* the call has set the brief until its integrate step the final_output of
\* the store is null.
C20_FinalOutputOnlyAtCompletion ==
    [][/\ (pc # "idle" /\ context'.final_output # context.final_output) =>
             /\ integrateRuns = 0
             /\ integrateRuns' = 1
       /\ integrateRuns >= 1 => (context' = context /\ disk' = disk)
       /\ pc' = "returned" => integrateRuns' = 1
       /\ (pc' # "idle" /\ integrateRuns' = 0) => context'.final_output = None
      ]_vars

\* C21: manager_plan is replaced, not accumulated: a plan step leaves in the
\* store, in memory and in the file, exactly the plan it generated, which is
\* the plan of the transient state, and nothing else changes manager_plan
\* during the run, so that no key of an earlier plan remains.
C21_PlanReplaced ==
    [][/\ planRuns' # planRuns =>
             /\ context'.manager_plan = state'.manager_plan
             /\ disk'.kind = "json"
             /\ disk'.v.manager_plan = state'.manager_plan
       /\ (pc # "idle" /\ planRuns' = planRuns) =>
             context'.manager_plan = context.manager_plan
      ]_vars

\* C21 witness: the plan step of a second round has stored a plan that lacks
\* keys the plan of the first round had, on a store that held the plan of an
\* earlier campaign.
C21_Witness ==
    /\ planRuns = 2
    /\ pc = "specialists"
    /\ context0.manager_plan = PlanB
    /\ context.manager_plan = D([strategy |-> S("strategy C")])
    /\ state.manager_plan = context.manager_plan

\* the completion is not JSON, with or without a fence around it
IsMalformed(text) == text.body.k \in {"err", "junk"}

\* the completion is JSON, bare or wrapped in a markdown code fence, and the
\* value it denotes
IsJsonText(text) == text.body.k \in {"json", "jsonticks"}
JsonValue(text) == text.body.v

\* the structured value a call site built: the plan, the evaluation, or the
\* record's content / analysis
Structured(r) ==
    IF r.site \in {"plan", "evaluate"} THEN r.out
    ELSE IF r.site = "data_analyst" THEN r.out.analysis
    ELSE r.out.content

\* an empty default: the empty string, the empty list, or an object whose
\* fields are all empty strings
IsEmptyDefault(v) ==
    \/ v = S("")
    \/ v = L(<<>>)
    \/ v.t = "dict" /\ \A k \in DOMAIN v.d : v.d[k] = S("")

\* C22: for every malformed completion, fenced ones included, and at each of
\* the five call sites, the fallback's raw_response is the completion text
\* verbatim and every other field of the fallback is an empty default.
C22_FallbackKeepsRawText ==
    (pc = "parsed" /\ IsMalformed(completion)) =>
        LET v == Structured(result)
        IN /\ v.t = "dict"
           /\ "raw_response" \in DOMAIN v.d
           /\ v.d.raw_response = Raw(completion)
           /\ \A k \in DOMAIN v.d \ {"raw_response"} : IsEmptyDefault(v.d[k])

\* C23: for every completion that is JSON, bare or wrapped in a markdown
\* code fence, the content / analysis of the specialist's record is the
\* value the JSON denotes, and task and agent are the task description given
\* and the specialist's tag.
C23_ValidJsonRoundTrip ==
    (pc = "parsed" /\ result.site \in Agents /\ IsJsonText(completion)) =>
        /\ Structured(result) = JsonValue(completion)
        /\ result.out.task = prompt[result.site].task
        /\ result.out.agent = AgentTag[result.site]

\* the evaluation is the fallback evaluate_outputs builds from a completion
\* it cannot parse
IsFallbackEvaluation(e) ==
    /\ e.t = "dict"
    /\ "raw_response" \in DOMAIN e.d
    /\ e.d.raw_response.t = "text"
    /\ e = FallbackEvaluation(e.d.raw_response.x)

\* C24: the evaluation built from an unusable completion is the optimistic
\* fallback (ready_for_final true, overall_score 7, no revision requests),
\* it has no request to record, and the decision taken on it is "finalize"
\* for every revision_count and max_revisions.
C24_UnusableEvaluationFinalizes ==
    (pc = "decided" /\ IsFallbackEvaluation(state.evaluation)) =>
        /\ state.evaluation.d.ready_for_final = B(TRUE)
        /\ state.evaluation.d.overall_score = Num(7)
        /\ recorded_requests(state.evaluation) = <<>>
        /\ branch = "finalize"

\* C25: when the completion call raises inside a specialist, the specialist
\* does not raise: it returns the fallback record, whose raw_response is the
\* "Error: ..." text, and appends that record to its own sequence; and when
\* this happened to the copywriter, the round ends with "finalize": the
\* evaluation step of that round takes the finalize branch.
C25_CallFailureContained ==
    [][/\ \A a \in Agents :
             (status[a] = "called" /\ status'[a] = "done" /\ callFailed'[a]) =>
                 LET record == state'[OutputField[a]]
                     payload == IF a = "data_analyst" THEN record.analysis
                                ELSE record.content
                 IN /\ pc' # "raised"
                    /\ payload.t = "dict"
                    /\ "raw_response" \in DOMAIN payload.d
                    /\ payload.d.raw_response = Raw(ErrorText)
                    /\ HasErrorMarker(payload.d.raw_response)
                    /\ context'[StoreField[a]] =
                          Append(context[StoreField[a]], record)
       /\ (/\ pc = "specialists"
           /\ evaluate_triggered(status)
           /\ pc' # pc
           /\ callFailed["copywriter"]) =>
             /\ branch' = "finalize"
             /\ pc' = "integrate"
      ]_vars

\* integrate_outputs has been called on the state
IntegrateCalled == result.raised \/ result.report # None

\* C26: integrate_outputs is total: on every transient state, those with
\* manager_plan or a specialist output None, empty or a fallback record
\* included, it returns without raising, and the report it returns has every
\* top-level and nested field.
C26_IntegratorTotal ==
    (pc = "pure" /\ IntegrateCalled) =>
        /\ ~result.raised
        /\ result.report # None
        /\ IsCompleteReport(result.report)

\* all three specialist outputs of the state are empty (None or {})
AllOutputsEmpty(st) ==
    \A a \in Agents : st[OutputField[a]] \in {None, NoDict}

\* the analyst's record carries a non-empty target_audiences
SuppliedAudiences(st) ==
    LET analysis == Payload(st.data_analyst_output, "analysis")
    IN IF IsDict(analysis)
       THEN Get(analysis, "target_audiences", L(<<>>))
       ELSE L(<<>>)

\* C27: with all three specialist outputs empty the final report has
\* target_audience "General audience", recommended_channels [], and an empty
\* core_message and empty content_examples and outreach_templates
\* sub-fields; and when the analyst supplies target audiences,
\* target_audience is the segment_name of the first of them.
C27_IntegratorDefaults ==
    (pc = "pure" /\ IntegrateCalled) =>
        /\ AllOutputsEmpty(state) =>
              /\ result.report # None
              /\ result.report.d.target_audience = S("General audience")
              /\ result.report.d.recommended_channels = L(<<>>)
              /\ result.report.d.core_message = S("")
              /\ result.report.d.content_examples =
                    D([slogan |-> S(""), instagram_captions |-> L(<<>>),
                       facebook_ads |-> L(<<>>), twitter_post |-> S(""),
                       linkedin_post |-> S("")])
              /\ result.report.d.outreach_templates =
                    D([cold_email |-> EmptyDict, influencer_pitch |-> EmptyDict,
                       media_pitch |-> EmptyDict])
        /\ (IsList(SuppliedAudiences(state)) /\ Truthy(SuppliedAudiences(state))) =>
              LET first == SuppliedAudiences(state).l[1]
              IN /\ result.report # None
                 /\ (IsDict(first) /\ "segment_name" \in DOMAIN first.d) =>
                       result.report.d.target_audience = first.d.segment_name

NotOwnedBy(a) ==
    {"brief", "campaign_id", "manager_plan", "revisions", "final_output",
     "created_at"}
    \cup {StoreField[b] : b \in Agents \ {a}}

C30_ConfigurationFailureIsFatal ==
    [][~Truthy(api_key) =>
          /\ disk' = disk
          /\ planRuns' = 0 /\ evalRuns' = 0 /\ integrateRuns' = 0
          /\ status' = [a \in Agents |-> "idle"]
          /\ pc = "main" => context' = _load_context(disk)
          /\ pc = "context_manager" => pc' = "raised" /\ context' = context
          /\ pc = "raised" =>
                pc' = "exit" /\ result' = Num(1) /\ context' = context
          /\ pc' \in {"context_manager", "raised", "exit"}
      ]_vars

\* C30 witness: main has returned 1 after the construction raised, next to a
\* context file that holds an earlier campaign, with no plan made.
C30_Witness ==
    /\ pc = "exit"
    /\ ~Truthy(api_key)
    /\ result = Num(1)
    /\ disk = json_dump(PreviousContext)
    /\ context = PreviousContext
    /\ planRuns = 0

\* the digest a context gives when only its brief, its plan and the lengths
\* of its three output sequences are looked at
DigestOf(brief, plan, counts) ==
    (IF Truthy(brief) THEN <<[line |-> "Brief", v |-> brief]>> ELSE <<>>)
    \o (IF Truthy(plan) THEN <<[line |-> "Plan", v |-> plan]>> ELSE <<>>)
    \o (IF counts[1] > 0
        THEN <<[line |-> "Copywriter outputs", n |-> counts[1]]>> ELSE <<>>)
    \o (IF counts[2] > 0
        THEN <<[line |-> "Data analyst outputs", n |-> counts[2]]>> ELSE <<>>)
    \o (IF counts[3] > 0
        THEN <<[line |-> "Outreach outputs", n |-> counts[3]]>> ELSE <<>>)

\* C31: get_context_summary is a deterministic, read-only digest: the call
\* changes neither the in-memory context nor the file; what it returns is
\* made of the brief, the plan and the count of each non-empty output
\* sequence only (no output content, no revisions, no final_output); and a
\* second call on the same contents returns the same digest.
C31_SummaryIsReadOnlyDigest ==
    [][lastOp'.op = "get_context_summary" =>
          /\ context' = context
          /\ disk' = disk
          /\ ~lastOp'.raised =>
                /\ result'.lines =
                      DigestOf(context.brief, context.manager_plan,
                               <<Len(context.copywriter_outputs),
                                 Len(context.data_analyst_outputs),
                                 Len(context.outreach_outputs)>>)
                /\ (lastOp.op = "get_context_summary" /\ ~lastOp.raised) =>
                      result' = result
      ]_vars

\* C31 witness: the digest of a store holding brief, plan, outputs, revisions
\* and a final report has been returned twice in a row, store and file as
\* they were.
C31_Witness ==
    /\ pc = "ready"
    /\ lastOp.op = "get_context_summary"
    /\ lastOp.after = "get_context_summary"
    /\ ~lastOp.raised
    /\ Len(result.lines) = 5
    /\ Len(context.revisions) > 0
    /\ context.final_output # None
    /\ disk = json_dump(context)

\* max(1, max_revisions)
EvaluateCeiling(max_revisions) == IF max_revisions > 1 THEN max_revisions ELSE 1

\* C32: in one execute_campaign run evaluate is passed at least once and at
\* most max(1, max_revisions) times; with max_revisions <= 1 the "revise"
\* edge is never taken and plan and each specialist run exactly once.
C32_EvaluatePassesBounded ==
    /\ evalRuns <= EvaluateCeiling(state.max_revisions)
    /\ state.max_revisions <= 1 => reviseTaken = 0 /\ planRuns <= 1
    /\ Stopped =>
          /\ evalRuns >= 1
          /\ state.max_revisions <= 1 =>
                /\ planRuns = 1
                /\ \A a \in Agents : AddedSince0(StoreField[a]) = 1

\* the revisions entries one pass records for the requests of an evaluation:
\* one per request, in request order, with an empty revised_output
RevisionEntries(evaluation) ==
    LET given == Get(evaluation, "revision_requests", L(<<>>))
        reqs == IF IsList(given) THEN given.l ELSE <<>>
    IN [i \in 1..Len(reqs) |->
          [agent |-> Get(reqs[i], "agent", S("unknown")),
           feedback |-> Get(reqs[i], "request", S("")),
           revised_output |-> EmptyDict]]

\* C33: each pass through evaluate appends to revisions exactly one entry per
\* element of the evaluation's revision_requests, in request order and with
\* an empty revised_output, and is followed by "revise" or by "finalize"
\* (the entries are written for requests, whichever branch follows).
C33_RevisionsRecordRequests ==
    [][(pc = "specialists" /\ evaluate_triggered(status) /\ pc' # pc) =>
          /\ branch' \in {"revise", "finalize"}
          /\ IsDict(state'.evaluation)
          /\ context'.revisions =
                context.revisions \o RevisionEntries(state'.evaluation)
      ]_vars

\* the fields set_brief assigns (updated_at through save_context)
BriefFields == {"brief", "created_at", "campaign_id", "updated_at"}

\* C34: set_brief changes only brief, created_at, campaign_id and updated_at:
\* the step of execute_campaign that sets the brief leaves manager_plan, the
\* three output sequences, revisions and final_output, in memory and in the
\* file, as the ContextManager loaded them, so a second campaign on the same
\* context file starts with the previous campaign's data in the store.
C34_SetBriefKeepsTheRest ==
    [][(pc = "idle" /\ pc' = "plan") =>
          /\ context'.brief = state'.brief
          /\ DOMAIN context' = DOMAIN context
          /\ \A k \in DOMAIN context \ BriefFields :
                /\ context'[k] = context[k]
                /\ _load_context(disk')[k] = _load_context(disk)[k]
          /\ \A k \in DOMAIN context' : _load_context(disk')[k] = context'[k]
      ]_vars

\* C34 witness: a campaign has been started on the context file of an earlier
\* campaign: the brief is the new one, plan, outputs, revisions and final
\* report are the earlier campaign's.
C34_Witness ==
    /\ pc = "plan"
    /\ context.brief = Brief
    /\ Brief # PreviousBrief
    /\ context.manager_plan = PreviousContext.manager_plan
    /\ context.manager_plan # None
    /\ \A a \in Agents : context[StoreField[a]] = PreviousContext[StoreField[a]]
    /\ Len(context.copywriter_outputs) > 0
    /\ context.revisions = PreviousContext.revisions
    /\ Len(context.revisions) > 0
    /\ context.final_output = PreviousReport
    /\ disk = json_dump(context)

\* C35: the store mutations of one execute_campaign run come in this order:
\* set_brief before any other; in every round set_manager_plan, then the
\* three add_<specialist>_output calls of the round, then the add_revision
\* calls of the round; set_final_output after all of them, and no mutation
\* after it.
C35_MutationOrder ==
    [][/\ (pc = "idle" /\ pc' # "idle") =>
             /\ context'.brief = state'.brief
             /\ planRuns' = 0 /\ evalRuns' = 0 /\ integrateRuns' = 0
       /\ (pc # "idle" /\ context' # context) => context.brief = state.brief
       /\ planRuns' # planRuns =>
             /\ context'.manager_plan = state'.manager_plan
             /\ evalRuns = planRuns
             /\ \A a \in Agents : AddedSince0(StoreField[a]) = planRuns
             /\ integrateRuns = 0
       /\ \A a \in Agents :
             (status[a] = "called" /\ status'[a] = "done") =>
                 /\ Len(context'[StoreField[a]]) = Len(context[StoreField[a]]) + 1
                 /\ Len(context'[StoreField[a]]) - Len(context0[StoreField[a]]) = planRuns
                 /\ planRuns >= 1
                 /\ context.manager_plan = state.manager_plan
                 /\ evalRuns = planRuns - 1
                 /\ context'.revisions = context.revisions
                 /\ integrateRuns = 0
       /\ (pc # "idle" /\ context'.revisions # context.revisions) =>
             /\ \A a \in Agents :
                   /\ AddedSince0(StoreField[a]) = planRuns
                   /\ context'[StoreField[a]] = context[StoreField[a]]
             /\ evalRuns = planRuns - 1
             /\ integrateRuns = 0
       /\ (pc # "idle" /\ context'.final_output # context.final_output) =>
             /\ integrateRuns = 0 /\ integrateRuns' = 1
             /\ evalRuns = planRuns /\ planRuns >= 1
       /\ integrateRuns >= 1 => (context' = context /\ disk' = disk)
       /\ pc' = "returned" =>
             integrateRuns' = 1 /\ context'.final_output = state'.final_output
      ]_vars

\* C35 witness: a run of two rounds, each with revisions recorded, has
\* returned with its final report stored last.
C35_Witness ==
    /\ pc = "returned"
    /\ planRuns = 2
    /\ evalRuns = 2
    /\ \A a \in Agents : AddedSince0(StoreField[a]) = 2
    /\ AddedSince0("revisions") = 4
    /\ context.final_output = state.final_output
    /\ context.manager_plan = state.manager_plan

\* the store is the initial empty structure
IsEmptyStore(ctx) ==
    /\ IsDictContext(ctx)
    /\ DOMAIN ctx = DOMAIN InitContext
    /\ ctx.brief = None
    /\ ctx.campaign_id = None
    /\ ctx.manager_plan = None
    /\ ctx.final_output = None
    /\ ctx.created_at = None
    /\ ctx.copywriter_outputs = <<>>
    /\ ctx.data_analyst_outputs = <<>>
    /\ ctx.outreach_outputs = <<>>
    /\ ctx.revisions = <<>>

\* C36: clear_context, called in any state of the store, does not raise and
\* leaves the initial empty structure in memory (brief, campaign_id,
\* manager_plan and final_output null, the four sequences empty); when it has
\* returned, the file holds that structure; and a ContextManager constructed
\* on the file afterwards holds an empty store.
C36_ClearResetsEverything ==
    lastOp.op = "clear_context" =>
        /\ ~lastOp.raised
        /\ IsEmptyStore(context)
        /\ pc = "ready" => disk = json_dump(context)
        /\ IsEmptyStore(_load_context(disk))

\* C36 witness: a store that held an earlier campaign, and got further
\* entries, has been cleared and the call has returned.
C36_Witness ==
    /\ MutatorReturned
    /\ lastOp.op = "clear_context"
    /\ lastOp.after # "none"
    /\ ops >= 2
    /\ context0 = CampaignData(PreviousContext)
    /\ context.updated_at = Now
    /\ disk = json_dump(context)


(* -------------------------- the message bus ---------------------------- *)
\* the requests of the log that ask for a response and have had no response
\* to their message_id since they were sent
Unanswered ==
    {messages[i] : i \in
        {i \in 1..Len(messages) :
            /\ messages[i].message_type = "request"
            /\ messages[i].requires_response
            /\ ~\E j \in (i + 1)..Len(messages) :
                  /\ messages[j].message_type = "response"
                  /\ messages[j].correlation_id = messages[i].message_id}}

PendingMessages == {pending_requests[id] : id \in DOMAIN pending_requests}

\* C37: after any sequence of send_message calls pending_requests holds
\* exactly the requests that ask for a response and to whose message_id no
\* response has been sent since.
C37_PendingIsExactlyUnanswered == PendingMessages = Unanswered

\* two different requests of the log never carry one message_id
DistinctRequestIds ==
    \A i, j \in 1..Len(messages) :
        /\ messages[i].message_type = "request"
        /\ messages[j].message_type = "request"
        /\ messages[i] # messages[j]
        => messages[i].message_id # messages[j].message_id

\* sending the response made for a pending request removes that request and
\* no other from pending_requests, and the response is addressed back to the
\* requester and correlated with the request
ResponsePairs ==
    \A id \in DOMAIN pending_requests :
        LET m == pending_requests[id]
            response == create_response(m, clock)
        IN messages' = Append(messages, response) =>
              /\ DOMAIN pending_requests' = DOMAIN pending_requests \ {id}
              /\ \A other \in DOMAIN pending_requests' :
                    pending_requests'[other] = pending_requests[other]
              /\ response.from_agent = m.to_agent
              /\ response.to_agent = m.from_agent
              /\ response.message_type = "response"
              /\ response.correlation_id = m.message_id

\* C38: the response made by create_response for a pending request m removes
\* m and only m from pending_requests and is addressed from m.to_agent to
\* m.from_agent with type RESPONSE and correlation_id m.message_id, also
\* with several requests pending, distinct requests always having distinct
\* message_ids.
C38_ResponsesPairWithRequests ==
    []DistinctRequestIds /\ [][ResponsePairs]_vars

\* items are the messages of the log at the indices idx, in send order
InSendOrder(items, idx) ==
    /\ Len(items) = Cardinality(idx)
    /\ \A i \in idx : items[Cardinality({j \in idx : j <= i})] = messages[i]

\* what one call on the bus does to the log and to pending_requests
LogStep ==
    clock' = clock =>
        /\ lastOp'.op = "send_message" =>
              /\ Len(messages') = Len(messages) + 1
              /\ SubSeq(messages', 1, Len(messages)) = messages
        /\ lastOp'.op = "get_messages_for_agent" =>
              /\ messages' = messages
              /\ pending_requests' = pending_requests
              /\ InSendOrder(result'.items,
                    {i \in 1..Len(messages) :
                        /\ messages[i].to_agent = lastOp'.arg[1]
                        /\ lastOp'.arg[2] # "any" =>
                              messages[i].message_type = lastOp'.arg[2]})
        /\ lastOp'.op = "get_conversation_history" =>
              /\ messages' = messages
              /\ pending_requests' = pending_requests
              /\ InSendOrder(result'.items,
                    {i \in 1..Len(messages) :
                        {messages[i].from_agent, messages[i].to_agent}
                            = {lastOp'.arg[1], lastOp'.arg[2]}})
        /\ lastOp'.op = "clear_messages" =>
              /\ messages' = <<>>
              /\ DOMAIN pending_requests' = {}

PendingAreLogged ==
    \A id \in DOMAIN pending_requests :
        \E i \in 1..Len(messages) : messages[i] = pending_requests[id]

\* C39: send_message appends exactly one message and keeps the earlier ones
\* in place, the getters return the matching messages in send order and
\* leave the bus alone, every pending request is in the log, and
\* clear_messages empties the log and pending_requests.
C39_LogIsAppendOnly == []PendingAreLogged /\ [][LogStep]_vars

\* C39 witness: a getter has returned two messages of a log of three that
\* holds a request still pending and a message that does not match.
C39_Witness ==
    /\ lastOp.op = "get_messages_for_agent"
    /\ Len(result.items) = 2
    /\ Len(messages) = 3
    /\ DOMAIN pending_requests # {}


(* -------------------------- the Streamlit page ------------------------- *)
\* sys.stdout when the run button was pressed
StdoutAtCall == "console"

\* C40: on every path of the wrapper execute_campaign sys.stdout is back at
\* its previous value when the wrapper has returned, the wrapper returns
\* None exactly when an exception occurred, and campaign_running is false
\* once the run button handler has finished.
C40_WrapperRestoresAndReports ==
    /\ pc \in {"completed", "caught", "handled"} => sys_stdout = StdoutAtCall
    /\ pc = "caught" => result = None
    /\ pc = "completed" => result # None
    /\ pc = "handled" => ~campaign_running

\* C40 witness: the workflow raised while sys.stdout was captured, after a
\* plan was made, and the handler has finished with None in hand.
C40_Witness ==
    /\ pc = "handled"
    /\ result = None
    /\ old_stdout # Unbound
    /\ planRuns >= 1

====
